---- MODULE Spec2Model ----
(***************************************************************************)
(* A model of the substance document engine.                               *)
(*                                                                         *)
(* Part 1 (SpecText): one text property and the property annotations on    *)
(* it, edited through Editing._insertText, Editing.insertInlineNode and    *)
(* Editing.annotate (src/model/Editing.js).                                *)
(* The same property with one annotation of any class and range, under    *)
(* insertText alone (SpecLoop).                                            *)
(*                                                                         *)
(* Part 2 (SpecDoc): a document of nodes with owned CHILD / CHILDREN       *)
(* references and property annotations, the parent links and the xpath of  *)
(* every node (XPathNode, src/model/Editing.js; the fixtures of the        *)
(* ParentNode tests, src/unnamed/part_000).                                *)
(*                                                                         *)
(* Part 3 (SpecIndex): a document with a DocumentIndex that is warmed up   *)
(* by addIndex and notified of create, delete, set and update              *)
(* (src/test/DocumentIndex.test.js).                                       *)
(*                                                                         *)
(* Part 4 (SpecHelpers): property and container annotations changed by     *)
(* truncateAnnotation, expandAnnotation and fuseAnnotation                 *)
(* (src/unnamed/part_000, src/ui/AnnotationCommand.js, AbstractAnnotation  *)
(* in src/model/_transferWithDisambiguatedIds.js).                         *)
(* The same annotations under one call of _updateRange (SpecRange).        *)
(*                                                                         *)
(* Part 5 (SpecSession): a DocumentSession that commits changes, updates   *)
(* node states and records the history (src/model/DocumentSession.js).     *)
(*                                                                         *)
(* Part 6 (SpecEdit): a container of text nodes and lists, edited through  *)
(* Editing.break and Editing.toggleList (src/model/Editing.js).            *)
(* The same container under one verb of Editing on a prepared document     *)
(* (SpecMerge): delete and the merges, break, toggleList, insertBlockNode  *)
(* and switchTextType on property, node and container selections.          *)
(* The verbs that remove what a node or container selection covers        *)
(* (SpecRemove): break, delete and insertText.  A break followed by a      *)
(* delete to the left in the same transaction (SpecRoundTrip).             *)
(*                                                                         *)
(* Part 7 (SpecRender): a Component whose _render is called while it is    *)
(* idle and while it is rendering (src/unnamed/part_002).                  *)
(*                                                                         *)
(* Part 8 (SpecCommand): an AnnotationCommand whose state follows the      *)
(* selection and whose execute methods change the annotations of Part 4    *)
(* (src/ui/AnnotationCommand.js, src/index.es.js).                         *)
(*                                                                         *)
(* Part 9 (SpecIndent): a list whose items are indented and dedented       *)
(* through Editing.indent and Editing.dedent (src/model/Editing.js).       *)
(*                                                                         *)
(* Part 10 (SpecTransfer): a node, the nodes it owns and the annotations   *)
(* on their texts, copied from a source document into a target document    *)
(* (src/model/_transferWithDisambiguatedIds.js).                           *)
(***************************************************************************)
EXTENDS Integers, Sequences, FiniteSets, TLC

\* ------------------------------------------------------------------ bounds
\* longest text the edited property may hold
MaxLen == 3
\* longest text handed to insertText
MaxInsert == 2
\* longest CHILDREN array
MaxChildren == 2
\* most mutations applied to the indexed document after addIndex
MaxMutations == 3
\* largest offset of a coordinate of the annotation helpers
MaxOffset == 3
\* most changes handed to a session
MaxChanges == 3
\* most ops of a change
MaxOps == 2
\* longest text of the text node the container starts with
MaxText == 2
\* most items of the list the container starts with
MaxItems == 3
\* most nodes the verbs create
MaxCreated == 2
\* most calls of Component._render
MaxRenders == 6
\* most nodes of the container and most items of a list of a merge fixture
MaxMerged == 2

\* ------------------------------------------------------------ text property
VARIABLES
  content,     \* the characters of the text property (tx.get(path))
  annos,       \* annotation id -> annotation on that property, or NoAnno
  selection,   \* tx.selection: a property selection on the path
  edit         \* the call of _insertText that has just completed, or NoEdit

varsText == <<content, annos, selection, edit>>

\* ---------------------------------------------------------------- document
VARIABLES
  nodes,       \* node id -> the node's data, or NoNode
  parent,      \* node id -> id of the node getParent() returns, or Null
  xpath,       \* node id -> the XPathNode getXpath() returns
  lastOp       \* the operation the document has applied last, or NoOp

varsDoc == <<nodes, parent, xpath, lastOp>>

\* ------------------------------------------------------- document and index
VARIABLES
  docNodes,    \* doc.getNodes(): the ids of the nodes of the indexed document
  bodyNodes,   \* the value of the property ['body', 'nodes']
  index,       \* the index added with doc.addIndex('test', index), or NoIndex
  calls,       \* the calls of the methods of the index, in order
  applied,     \* the mutations the document has applied since addIndex
  atAttach     \* doc.getNodes() at the time of addIndex

varsIndex == <<docNodes, bodyNodes, index, calls, applied, atAttach>>

\* ------------------------------------------------------ annotation helpers
VARIABLES
  docAnnos,    \* annotation id -> the annotation of the document, or NoAnno
  helped       \* the call of an annotation helper that has just completed

varsHelpers == <<docAnnos, helped>>

\* --------------------------------------------------------- DocumentSession
VARIABLES
  history,     \* this._history
  disposed,    \* dispose() was called: the session no longer listens
  events,      \* what the document and the listeners have observed, in order
  received,    \* the changes _onDocumentChange was called with, in order
  todo,        \* the statements the running method has still to execute
  current,     \* the change the running method works on
  errors,      \* the number of errors thrown
  nextId       \* the number of changes constructed so far

varsSession == <<history, disposed, events, received, todo, current, errors, nextId>>

\* ----------------------------------------------------- editing a container
VARIABLES
  tx,          \* the transaction document: nodes, ['body', 'nodes'], annotations
  txSelection, \* tx.selection: a collapsed property selection in the container
  lastVerb     \* the verb that has just completed and the state it started in

varsEdit == <<tx, txSelection, lastVerb>>

\* ---------------------------------------------------------------- Component
VARIABLES
  isRendering, \* this.__isRendering__
  running,     \* the calls of renderingEngine._render that have not returned
  renderLog    \* what the calls of _render did, in order

varsRender == <<isRendering, running, renderLog>>

\* -------------------------------------------------------- AnnotationCommand
VARIABLES
  cmdSelection, \* params.selection
  blurred,      \* params.editorSession.isBlurred()
  commandState, \* the state getCommandState has returned for the selection
  executed      \* the call of an execute method that has just completed

varsCommand == <<cmdSelection, blurred, commandState, executed>>

\* -------------------------------------------------------- indent and dedent
VARIABLES
  levels,      \* item.level of every item of the list
  levelOps,    \* the operations the last verb has issued, in order
  lastIndent   \* the verb that has just completed and the levels it started with

varsIndent == <<levels, levelOps, lastIndent>>

\* ------------------------------------------- _transferWithDisambiguatedIds
VARIABLES
  sourceDoc,   \* the nodes of the document that is read
  targetDoc,   \* the nodes of the document that is written
  lastTransfer \* the call that has just completed and the documents it started with

varsTransfer == <<sourceDoc, targetDoc, lastTransfer>>

\* the parts that were added last
varsMore == <<varsIndent, varsTransfer>>

vars == <<content, annos, selection, edit, nodes, parent, xpath, lastOp,
          docNodes, bodyNodes, index, calls, applied, atAttach,
          docAnnos, helped,
          history, disposed, events, received, todo, current, errors, nextId,
          tx, txSelection, lastVerb,
          isRendering, running, renderLog,
          cmdSelection, blurred, commandState, executed,
          levels, levelOps, lastIndent,
          sourceDoc, targetDoc, lastTransfer>>

AnnoIds == {"anno"}

NoAnno == [type |-> "none"]
NoEdit == [verb |-> "none"]

\* characters: 1..MaxLen are the characters of the initial text, TypedChar is
\* a character typed by insertText, InlineChar the placeholder '﻿'
TypedChar == 0
InlineChar == -1

\* annotation classes: isInlineNode() and the static autoExpandRight
AnnoTypes == {"strong", "link", "inline-node", "inline-noexpand"}
isInlineNode(type) == type \in {"inline-node", "inline-noexpand"}
autoExpandRight(type) == type \in {"strong", "inline-node"}

Offsets == 0..MaxLen

\* Selection.isCollapsed
isCollapsed(sel) == sel.startOffset = sel.endOffset

RECURSIVE Repeat(_, _)
Repeat(c, n) == IF n = 0 THEN <<>> ELSE <<c>> \o Repeat(c, n - 1)

\* tx.update(path, {type: 'delete', start, end}) on a text property
deleteText(text, start, end) ==
  SubSeq(text, 1, start) \o SubSeq(text, end + 1, Len(text))

\* tx.update(path, {type: 'insert', start, text}) on a text property
insertTextAt(text, start, str) ==
  SubSeq(text, 1, start) \o str \o SubSeq(text, start + 1, Len(text))

\* ------------------------------------------- _insertText: the annotation loop
\* the branch conditions of the forEach body, in the order of the if-chain
CaseI_offByOne(annoStart, annoEnd, startOffset, endOffset) ==
  annoEnd < startOffset - 1

CaseI(annoStart, annoEnd, startOffset, endOffset) ==
  annoEnd < startOffset

CaseII(annoStart, annoEnd, startOffset, endOffset) ==
  annoStart >= endOffset

CaseIII_allCovered(inline, annoStart, annoEnd, startOffset, endOffset) ==
  annoStart >= startOffset /\ annoEnd <= endOffset

CaseIII(inline, annoStart, annoEnd, startOffset, endOffset) ==
  \/ annoStart >= startOffset /\ annoEnd < endOffset
  \/ inline /\ annoStart >= startOffset /\ annoEnd <= endOffset

CaseIV(annoStart, annoEnd, startOffset, endOffset) ==
  annoStart >= startOffset /\ annoEnd >= endOffset

CaseV(annoStart, annoEnd, startOffset, endOffset) ==
  annoStart < startOffset /\ annoEnd < endOffset

CaseVI(expandRight, annoEnd, startOffset) ==
  annoEnd = startOffset /\ ~expandRight

CaseVII_endAfter(annoStart, annoEnd, startOffset, endOffset) ==
  annoStart < startOffset /\ annoEnd > endOffset

CaseVII(annoStart, annoEnd, startOffset, endOffset) ==
  annoStart < startOffset /\ annoEnd >= endOffset

\* the operations a branch issues on the transaction
shiftOp(prop, value) == [type |-> "shift", prop |-> prop, value |-> value]
deleteOp == [type |-> "delete"]

opsII_noSpan(startOffset, endOffset, L) ==
  << shiftOp("start", L), shiftOp("end", L) >>

\* II: both ends move by the total span + L
opsII(startOffset, endOffset, L) ==
  << shiftOp("start", startOffset - endOffset + L),
     shiftOp("end", startOffset - endOffset + L) >>

opsIV_alwaysMoveStart(annoStart, startOffset, endOffset, L, typeover) ==
  << shiftOp("start", startOffset - annoStart + L),
     shiftOp("end", startOffset - endOffset + L) >>

\* IV: start moves to startOffset + L (not when typing over from the
\* annotation's start), end moves by the total span + L
opsIV(annoStart, startOffset, endOffset, L, typeover) ==
  (IF annoStart > startOffset \/ ~typeover
     THEN << shiftOp("start", startOffset - annoStart + L) >>
     ELSE <<>>)
  \o << shiftOp("end", startOffset - endOffset + L) >>

opsV_truncate(annoEnd, startOffset, L) ==
  << shiftOp("end", startOffset - annoEnd) >>

\* V: the annotation is expanded, its end moves to startOffset + L
opsV(annoEnd, startOffset, L) ==
  << shiftOp("end", startOffset - annoEnd + L) >>

opsVII_noInlineSkip(inline, startOffset, endOffset, L) ==
  << shiftOp("end", startOffset - endOffset + L) >>

\* VII: end moves by the total span + L; an inline node is skipped
opsVII(inline, startOffset, endOffset, L) ==
  IF inline THEN <<>>
  ELSE << shiftOp("end", startOffset - endOffset + L) >>

\* which branch of the if-chain an annotation takes
annoCase(anno, startOffset, endOffset) ==
  LET annoStart == anno.start
      annoEnd == anno.end
  IN  IF CaseI(annoStart, annoEnd, startOffset, endOffset) THEN "I"
      ELSE IF CaseII(annoStart, annoEnd, startOffset, endOffset) THEN "II"
      ELSE IF CaseIII(isInlineNode(anno.type), annoStart, annoEnd,
                      startOffset, endOffset) THEN "III"
      ELSE IF CaseIV(annoStart, annoEnd, startOffset, endOffset) THEN "IV"
      ELSE IF CaseV(annoStart, annoEnd, startOffset, endOffset) THEN "V"
      ELSE IF CaseVI(autoExpandRight(anno.type), annoEnd, startOffset) THEN "VI"
      ELSE IF CaseVII(annoStart, annoEnd, startOffset, endOffset) THEN "VII"
      ELSE "TODO"

\* the operations the forEach body issues for one annotation
annoOps(anno, startOffset, endOffset, L, typeover) ==
  LET c == annoCase(anno, startOffset, endOffset)
  IN  CASE c = "II" -> opsII(startOffset, endOffset, L)
        [] c = "III" -> << deleteOp >>
        [] c = "IV" -> opsIV(anno.start, startOffset, endOffset, L, typeover)
        [] c = "V" -> opsV(anno.end, startOffset, L)
        [] c = "VII" -> opsVII(isInlineNode(anno.type), startOffset, endOffset, L)
        [] OTHER -> <<>>

\* tx.update([anno.id, 'start'|'end'], {type: 'shift', value}) and
\* tx.delete(anno.id), applied to one annotation
applyOp(anno, op) ==
  IF anno = NoAnno THEN anno
  ELSE IF op.type = "delete" THEN NoAnno
  ELSE IF op.prop = "start" THEN [anno EXCEPT !.start = @ + op.value]
  ELSE [anno EXCEPT !.end = @ + op.value]

RECURSIVE applyOps(_, _)
applyOps(anno, ops) ==
  IF ops = <<>> THEN anno
  ELSE applyOps(applyOp(anno, Head(ops)), Tail(ops))

\* the annotations after the loop of _insertText, and the log of operations
opsLog(as, startOffset, endOffset, L, typeover) ==
  [id \in AnnoIds |->
     IF as[id] = NoAnno THEN <<>>
     ELSE annoOps(as[id], startOffset, endOffset, L, typeover)]

annosAfterInsert(as, startOffset, endOffset, L, typeover) ==
  [id \in AnnoIds |->
     applyOps(as[id], opsLog(as, startOffset, endOffset, L, typeover)[id])]

\* the text after the two text updates of _insertText
contentAfterInsert(text, startOffset, endOffset, str, typeover) ==
  insertTextAt(IF typeover THEN deleteText(text, startOffset, endOffset) ELSE text,
               startOffset, str)

\* ------------------------------------------------------------------ actions
\* Editing._insertText(tx, sel, text), sel a property selection on the path
\* the model follows an annotation only while its offsets are within Offsets
inOffsets(as) ==
  \A id \in AnnoIds :
    as[id] # NoAnno => as[id].start \in Offsets /\ as[id].end \in Offsets

InsertTextStep(sel, str, verb) ==
  LET startOffset == sel.startOffset
      endOffset == sel.endOffset
      typeover == ~isCollapsed(sel)
      L == Len(str)
  IN  /\ inOffsets(annosAfterInsert(annos, startOffset, endOffset, L, typeover))
      /\ content' = contentAfterInsert(content, startOffset, endOffset, str, typeover)
      /\ annos' = annosAfterInsert(annos, startOffset, endOffset, L, typeover)
      /\ selection' = [startOffset |-> startOffset + L, endOffset |-> startOffset + L]
      /\ edit' = [verb |-> verb, startOffset |-> startOffset, endOffset |-> endOffset,
                  L |-> L, typeover |-> typeover, before |-> annos, textBefore |-> content,
                  ops |-> opsLog(annos, startOffset, endOffset, L, typeover)]

ValidSel(text) ==
  {[startOffset |-> s, endOffset |-> e] : s \in 0..Len(text), e \in 0..Len(text)}
    \cap {sel \in [startOffset : Offsets, endOffset : Offsets] :
            sel.startOffset <= sel.endOffset}

\* Editing.insertText(tx, text) with tx.selection a collapsed or property
\* selection: _insertText(tx, tx.selection, text)
insertText ==
  \E L \in 0..MaxInsert :
    /\ Len(content) - (selection.endOffset - selection.startOffset) + L <= MaxLen
    /\ InsertTextStep(selection, Repeat(TypedChar, L), "insertText")

\* tx.setSelection with a property selection on the path
setSelection ==
  \E sel \in ValidSel(content) :
    /\ sel # selection
    /\ selection' = sel
    /\ edit' = NoEdit
    /\ UNCHANGED <<content, annos>>

\* Editing.annotate(tx, {type}) for a property selection: tx.create of an
\* annotation with the start and end of the selection
annotate ==
  \E id \in AnnoIds, type \in {t \in AnnoTypes : ~isInlineNode(t)} :
    /\ annos[id] = NoAnno
    /\ annos' = [annos EXCEPT ![id] =
                   [type |-> type, start |-> selection.startOffset,
                    end |-> selection.endOffset]]
    /\ edit' = NoEdit
    /\ UNCHANGED <<content, selection>>

\* Editing.insertInlineNode(tx, nodeData): insertText of the placeholder
\* character at tx.selection, then tx.create of the inline node over it
insertInlineNode ==
  \E id \in AnnoIds, type \in {t \in AnnoTypes : isInlineNode(t)} :
    LET sel == selection
        startOffset == sel.startOffset
        endOffset == sel.endOffset
        typeover == ~isCollapsed(sel)
        text == <<InlineChar>>
        L == Len(text)
        moved == annosAfterInsert(annos, startOffset, endOffset, L, typeover)
        cursor == startOffset + L
    IN  /\ annos[id] = NoAnno
        /\ Len(content) - (endOffset - startOffset) + L <= MaxLen
        /\ inOffsets(moved)
        /\ content' = contentAfterInsert(content, startOffset, endOffset, text, typeover)
        /\ selection' = [startOffset |-> cursor, endOffset |-> cursor]
        /\ annos' = [moved EXCEPT ![id] =
                       [type |-> type, start |-> cursor - L, end |-> cursor]]
        /\ edit' = [verb |-> "insertInlineNode", startOffset |-> startOffset,
                    endOffset |-> endOffset, L |-> L, typeover |-> typeover,
                    before |-> annos, textBefore |-> content,
                    ops |-> opsLog(annos, startOffset, endOffset, L, typeover)]

TextInit ==
  /\ content \in {[i \in 1..n |-> i] : n \in 0..MaxLen}
  /\ annos = [id \in AnnoIds |-> NoAnno]
  /\ selection \in ValidSel(content)
  /\ edit = NoEdit


\* ============================================================ the document
\* ids of the fixtures: 'a' a parent with CHILDREN, 'p' a parent with an
\* OPTIONAL CHILD, 'b' and 'c' children, two text nodes and an annotation
NodeIds == {"a", "p", "b", "c", "text1", "text2", "anno"}

\* the node type of every id
typeOf(id) ==
  CASE id = "a" -> "parent-with-children"
    [] id = "p" -> "parent"
    [] id \in {"b", "c"} -> "child"
    [] id \in {"text1", "text2"} -> "some-text"
    [] id = "anno" -> "some-anno"

Null == "null"
NoNode == [type |-> "none"]
NoOp == [op |-> "none"]
\* XPathNode.pos = null
NoPos == -1

\* the ids an annotation's start.path[0] may address: 'text' is never created
PathIds == {"text", "text1", "text2"}
DanglingPathIds == {"text"}

exists(ns, id) == id \in NodeIds /\ ns[id] # NoNode

\* the schema: the owned property 'foo' is a CHILD or a CHILDREN property
isChildProperty(type) == type = "parent"
isChildrenProperty(type) == type = "parent-with-children"
isAnnotation(type) == type = "some-anno"

\* the ids a node holds in its owned property, in order
ownedRefs(node) ==
  IF isChildProperty(node.type)
    THEN (IF node.foo = Null THEN <<>> ELSE <<node.foo>>)
  ELSE IF isChildrenProperty(node.type) THEN node.foo
  ELSE <<>>

Range(seq) == {seq[i] : i \in DOMAIN seq}

\* array.indexOf, 0-based
indexOf(seq, x) == CHOOSE i \in 0..(Len(seq) - 1) : seq[i + 1] = x

\* the nodes that hold id in their owned property
holders(ns, id) ==
  {h \in NodeIds : ns[h] # NoNode /\ id \in Range(ownedRefs(ns[h]))}

\* new XPathNode(id, type)
XPathNode(id, type) ==
  [id |-> id, type |-> type, prev |-> Null, property |-> Null, pos |-> NoPos]

isNumber(pos) == pos # NoPos

toJSON_truthyPos(x) ==
  [id |-> x.id, type |-> x.type]
    @@ (IF x.property # Null THEN [property |-> x.property] ELSE <<>>)
    @@ (IF x.pos > 0 THEN [pos |-> x.pos] ELSE <<>>)

\* XPathNode.toJSON
toJSON(x) ==
  [id |-> x.id, type |-> x.type]
    @@ (IF x.property # Null THEN [property |-> x.property] ELSE <<>>)
    @@ (IF isNumber(x.pos) THEN [pos |-> x.pos] ELSE <<>>)

\* XPathNode.toArray: the entries from the last prev down to the node
RECURSIVE toArray(_, _)
toArray(xp, id) ==
  IF xp[id].prev = Null THEN << toJSON(xp[id]) >>
  ELSE toArray(xp, xp[id].prev) \o << toJSON(xp[id]) >>

\* ------------------------------------------------ maintenance of the links
\* the links of the document: h.parent and h.xpath
setParentAndXpath_keepOnDetach(h, par, id, property) ==
  IF par = Null THEN h
  ELSE [parent |-> [h.parent EXCEPT ![id] = par],
        xpath |-> [h.xpath EXCEPT ![id] = [@ EXCEPT !.prev = par, !.property = property]]]

\* set the parent of one existing node; a detached node loses prev, property
\* and pos of its xpath
setParentAndXpath(h, par, id, property) ==
  [parent |-> [h.parent EXCEPT ![id] = par],
   xpath |-> [h.xpath EXCEPT ![id] =
               IF par = Null
                 THEN [@ EXCEPT !.prev = Null, !.property = Null, !.pos = NoPos]
                 ELSE [@ EXCEPT !.prev = par, !.property = property]]]

\* set the parent of every existing node of ids
RECURSIVE setParent(_, _, _, _, _)
setParent(h, ns, par, ids, property) ==
  IF ids = <<>> THEN h
  ELSE setParent(IF exists(ns, Head(ids))
                   THEN setParentAndXpath(h, par, Head(ids), property)
                   ELSE h,
                 ns, par, Tail(ids), property)

\* the xpath of every existing child of a CHILDREN array carries its index
updateContainerPositions(h, ns, arr) ==
  [h EXCEPT !.xpath =
     [id \in NodeIds |->
        IF exists(ns, id) /\ id \in Range(arr)
          THEN [@[id] EXCEPT !.pos = indexOf(arr, id)]
          ELSE @[id]]]

\* parent links for the owned references a node holds
linkOwned(h, ns, id) ==
  LET node == ns[id]
      h1 == setParent(h, ns, id, ownedRefs(node), "foo")
  IN  IF isChildrenProperty(node.type)
        THEN updateContainerPositions(h1, ns, node.foo)
        ELSE h1

setAnnotationParent_onlyExisting(h, ns, id) ==
  LET target == ns[id].path[1]
  IN  IF exists(ns, target)
        THEN setParentAndXpath(h, target, id, ns[id].path[2])
        ELSE h

\* a start path addresses a node created before, or the dangling 'text'
canAddress(ns, data) ==
  isAnnotation(data.type) =>
    data.path[1] \in DanglingPathIds \/ exists(ns, data.path[1])

\* the parent of an annotation is the node addressed by start.path[0]
setAnnotationParent(h, ns, id) ==
  LET target == ns[id].path[1]
  IN  setParentAndXpath(h, IF exists(ns, target) THEN target ELSE Null,
                        id, ns[id].path[2])

\* a node created after the node that holds its id ('wrong order')
linkToHolder(h, ns, id) ==
  IF holders(ns, id) = {} THEN h
  ELSE LET owner == CHOOSE o \in holders(ns, id) : TRUE
           h1 == setParentAndXpath(h, owner, id, "foo")
       IN  IF isChildrenProperty(ns[owner].type)
             THEN updateContainerPositions(h1, ns, ns[owner].foo)
             ELSE h1

links == [parent |-> parent, xpath |-> xpath]

setLinks(h) ==
  /\ parent' = h.parent
  /\ xpath' = h.xpath

\* ------------------------------------------------------- document actions
\* the ids an owned property may hold
ChildIds == {"p", "b", "c"}

\* ownership: an owned property takes ids no other node holds, without
\* duplicates, and not the id of the node itself; the CHILD of 'p' is a child
\* node, the CHILDREN of 'a' may also hold 'p' (xpaths of three entries)

canOwn(ns, owner, ids) ==
  /\ \A i, j \in DOMAIN ids : i # j => ids[i] # ids[j]
  /\ \A i \in DOMAIN ids :
       /\ ids[i] # owner
       /\ typeOf(ids[i]) = "child" \/ isChildrenProperty(typeOf(owner))
       /\ holders(ns, ids[i]) \subseteq {owner}

\* the values of a CHILDREN property
ChildrenValues == UNION {[1..n -> ChildIds] : n \in 0..MaxChildren}

\* the values of an OPTIONAL(CHILD) property
ChildValues == {Null} \cup ChildIds

\* the data a node of the given id can be created with
NodeData(id) ==
  CASE isChildrenProperty(typeOf(id)) ->
         {[type |-> typeOf(id), foo |-> v] : v \in ChildrenValues}
    [] isChildProperty(typeOf(id)) ->
         {[type |-> typeOf(id), foo |-> v] : v \in ChildValues}
    [] isAnnotation(typeOf(id)) ->
         {[type |-> typeOf(id), path |-> <<t, "content">>] : t \in PathIds}
    [] OTHER -> {[type |-> typeOf(id)]}

\* doc.create(nodeData)
create ==
  \E id \in NodeIds : \E data \in NodeData(id) :
    LET ns == [nodes EXCEPT ![id] = data]
        h0 == [parent |-> parent,
               xpath |-> [xpath EXCEPT ![id] = XPathNode(id, data.type)]]
        h1 == linkOwned(h0, ns, id)
        h2 == IF isAnnotation(data.type) THEN setAnnotationParent(h1, ns, id) ELSE h1
        h3 == linkToHolder(h2, ns, id)
    IN  /\ nodes[id] = NoNode
        /\ canOwn(nodes, id, ownedRefs(data))
        /\ canAddress(nodes, data)
        /\ nodes' = ns
        /\ setLinks(h3)
        /\ lastOp' = [op |-> "create", id |-> id]

\* doc.set([id, 'foo'], value) on an owned property
setOwned ==
  \E id \in NodeIds :
    \E value \in (IF isChildrenProperty(typeOf(id)) THEN ChildrenValues ELSE ChildValues) :
      LET old == nodes[id]
          new == [old EXCEPT !.foo = value]
          ns == [nodes EXCEPT ![id] = new]
          h1 == setParent(links, ns, Null, ownedRefs(old), "foo")
      IN  /\ exists(nodes, id)
          /\ isChildProperty(typeOf(id)) \/ isChildrenProperty(typeOf(id))
          /\ value # old.foo
          /\ canOwn(nodes, id, ownedRefs(new))
          /\ nodes' = ns
          /\ setLinks(linkOwned(h1, ns, id))
          /\ lastOp' = [op |-> "set", id |-> id, old |-> old.foo, value |-> value]

\* doc.update([id, 'foo'], {type: 'insert', pos, value}) on a CHILDREN array
insertChild ==
  \E id \in NodeIds, value \in ChildIds :
    /\ exists(nodes, id)
    /\ isChildrenProperty(typeOf(id))
    /\ \E pos \in 0..Len(nodes[id].foo) :
         LET arr == SubSeq(nodes[id].foo, 1, pos) \o <<value>>
                      \o SubSeq(nodes[id].foo, pos + 1, Len(nodes[id].foo))
             ns == [nodes EXCEPT ![id].foo = arr]
             h1 == setParent(links, ns, id, <<value>>, "foo")
         IN  /\ Len(arr) <= MaxChildren
             /\ value \notin Range(nodes[id].foo)
             /\ canOwn(nodes, id, <<value>>)
             /\ nodes' = ns
             /\ setLinks(updateContainerPositions(h1, ns, arr))
             /\ lastOp' = [op |-> "insert", id |-> id, pos |-> pos, value |-> value]

\* doc.update([id, 'foo'], {type: 'delete', pos}) on a CHILDREN array
removeChild ==
  \E id \in NodeIds :
    /\ exists(nodes, id)
    /\ isChildrenProperty(typeOf(id))
    /\ \E pos \in 0..(Len(nodes[id].foo) - 1) :
         LET removed == nodes[id].foo[pos + 1]
             arr == SubSeq(nodes[id].foo, 1, pos)
                      \o SubSeq(nodes[id].foo, pos + 2, Len(nodes[id].foo))
             ns == [nodes EXCEPT ![id].foo = arr]
             h1 == setParent(links, ns, Null, <<removed>>, "foo")
         IN  /\ nodes' = ns
             /\ setLinks(updateContainerPositions(h1, ns, arr))
             /\ lastOp' = [op |-> "delete", id |-> id, pos |-> pos, value |-> removed]

\* doc.set([anno.id, 'start', 'path'], path)
setAnnotationPath ==
  \E id \in NodeIds, t \in PathIds :
    LET ns == [nodes EXCEPT ![id].path = <<t, "content">>]
    IN  /\ exists(nodes, id)
        /\ isAnnotation(typeOf(id))
        /\ nodes[id].path[1] # t
        /\ canAddress(nodes, ns[id])
        /\ nodes' = ns
        /\ setLinks(setAnnotationParent(links, ns, id))
        /\ lastOp' = [op |-> "setPath", id |-> id, old |-> nodes[id].path[1], value |-> t]

DocInit ==
  /\ nodes = [id \in NodeIds |-> NoNode]
  /\ parent = [id \in NodeIds |-> Null]
  /\ xpath = [id \in NodeIds |-> XPathNode(id, "none")]
  /\ lastOp = NoOp

\* ====================================================== document and index
\* the nodes of the indexed document: the body and paragraphs of the fixture,
\* and the paragraph 'test' the test creates
IndexedIds == {"body", "p1", "test"}
ParagraphIds == {"p1", "test"}
nodeType(id) == IF id = "body" THEN "body" ELSE "paragraph"

\* doc.getNodes() enumerates the nodes in a fixed order
NodeOrder == <<"body", "p1", "test">>
getNodes(ids) == SelectSeq(NodeOrder, LAMBDA id : id \in ids)

BodyPath == <<"body", "nodes">>

\* the values of ['body', 'nodes']: paragraph ids without duplicates
BodyValues ==
  {v \in UNION {[1..n -> ParagraphIds] : n \in 0..Cardinality(ParagraphIds)} :
     \A i, j \in DOMAIN v : i # j => v[i] # v[j]}

\* the indexes: TestIndex selects every node, a type index the paragraphs
NoIndex == "none"
IndexKinds == {"all", "paragraph"}

\* index.select(node)
select(ix, id) == ix = "all" \/ nodeType(id) = ix

\* one call of a spied method of the index, with its arguments
Call(method, id) ==
  [method |-> method, node |-> id, path |-> <<>>, args |-> <<>>]

updateArgs_oldFirst(path, newValue, oldValue) ==
  [path |-> path, args |-> <<oldValue, newValue>>]

\* the arguments of index.update after the node: path, newValue, oldValue
updateArgs(path, newValue, oldValue) ==
  [path |-> path, args |-> <<newValue, oldValue>>]

UpdateCall(id, path, newValue, oldValue) ==
  [method |-> "update", node |-> id,
   path |-> updateArgs(path, newValue, oldValue).path,
   args |-> updateArgs(path, newValue, oldValue).args]

notify_twice(ix, call) ==
  IF ix = NoIndex THEN <<>>
  ELSE << Call("select", call.node) >>
         \o (IF select(ix, call.node) THEN << call, call >> ELSE <<>>)

\* the document notifies an index of a mutation of a node: select, and the
\* callback if the index selects the node
notify(ix, call) ==
  IF ix = NoIndex THEN <<>>
  ELSE << Call("select", call.node) >>
         \o (IF select(ix, call.node) THEN << call >> ELSE <<>>)

\* the concatenation of a sequence of sequences
RECURSIVE Flatten(_)
Flatten(seqs) ==
  IF seqs = <<>> THEN <<>> ELSE Head(seqs) \o Flatten(Tail(seqs))

warmUp_skipFirst(ix, ids) ==
  Flatten([i \in 1..(Len(ids) - 1) |-> notify(ix, Call("create", ids[i + 1]))])

\* the warm-up of addIndex: select and create for the nodes of the document
warmUp(ix, ids) ==
  Flatten([i \in 1..Len(ids) |-> notify(ix, Call("create", ids[i]))])

Mutation(op, id, newValue, oldValue) ==
  [op |-> op, node |-> id, newValue |-> newValue, oldValue |-> oldValue]

\* the document applies a mutation and notifies the index
applyAndNotify(mutation, call) ==
  /\ index # NoIndex => Len(applied) < MaxMutations
  /\ calls' = calls \o notify(index, call)
  /\ applied' = IF index = NoIndex THEN applied ELSE Append(applied, mutation)
  /\ UNCHANGED <<index, atAttach>>

\* doc.addIndex('test', index)
addIndex ==
  \E ix \in IndexKinds :
    /\ index = NoIndex
    /\ index' = ix
    /\ calls' = warmUp(ix, getNodes(docNodes))
    /\ atAttach' = docNodes
    /\ UNCHANGED <<docNodes, bodyNodes, applied>>

\* doc.create({type, id})
docCreate ==
  \E id \in IndexedIds \ docNodes :
    /\ docNodes' = docNodes \cup {id}
    /\ bodyNodes' = IF id = "body" THEN <<>> ELSE bodyNodes
    /\ applyAndNotify(Mutation("create", id, <<>>, <<>>), Call("create", id))

\* doc.delete(id)
docDelete ==
  \E id \in docNodes :
    /\ docNodes' = docNodes \ {id}
    /\ UNCHANGED bodyNodes
    /\ applyAndNotify(Mutation("delete", id, <<>>, <<>>), Call("delete", id))

\* doc.set(['body', 'nodes'], value)
docSet ==
  \E value \in BodyValues :
    /\ "body" \in docNodes
    /\ bodyNodes' = value
    /\ UNCHANGED docNodes
    /\ applyAndNotify(Mutation("set", "body", value, bodyNodes),
                      UpdateCall("body", BodyPath, value, bodyNodes))

\* body.remove(id): doc.update(['body', 'nodes'], {type: 'delete', pos, value})
bodyRemove ==
  \E pos \in DOMAIN bodyNodes :
    LET value == SubSeq(bodyNodes, 1, pos - 1)
                   \o SubSeq(bodyNodes, pos + 1, Len(bodyNodes))
    IN  /\ "body" \in docNodes
        /\ bodyNodes' = value
        /\ UNCHANGED docNodes
        /\ applyAndNotify(Mutation("update", "body", value, bodyNodes),
                          UpdateCall("body", BodyPath, value, bodyNodes))

\* the fixture: a body with its paragraphs, no index yet
IndexInit ==
  /\ docNodes = {"body", "p1"}
  /\ bodyNodes = <<"p1">>
  /\ index = NoIndex
  /\ calls = <<>>
  /\ applied = <<>>
  /\ atAttach = {}

\* ====================================================== annotation helpers
\* the container ['body', 'nodes'] of the fixture, in document order
ContainerNodes == <<"p1", "p2">>
HelperAnnoIds == {"a1", "a2"}
PropertyAnnoTypes == {"strong"}
ContainerAnnoTypes == {"test-container-anno"}
isContainerAnnotation(anno) == anno.type \in ContainerAnnoTypes

NoHelp == [op |-> "none"]

\* new Coordinate(path, offset)
Coordinate(id, offset) == [path |-> <<id, "content">>, offset |-> offset]
Coordinates ==
  {Coordinate(ContainerNodes[i], o) : i \in DOMAIN ContainerNodes, o \in 0..MaxOffset}

\* the position of the node of a coordinate in the container
getPosition(coor) ==
  CHOOSE i \in DOMAIN ContainerNodes : ContainerNodes[i] = coor.path[1]

\* Coordinate order: the position in the container first, then the offset
isBefore(c1, c2, strict) ==
  \/ getPosition(c1) < getPosition(c2)
  \/ /\ getPosition(c1) = getPosition(c2)
     /\ IF strict THEN c1.offset < c2.offset ELSE c1.offset <= c2.offset

minCoor(c1, c2) == IF isBefore(c2, c1, TRUE) THEN c2 ELSE c1
maxCoor(c1, c2) == IF isBefore(c1, c2, TRUE) THEN c2 ELSE c1

\* the selections: property selections and container selections
PropertySelections ==
  {[type |-> "property", start |-> c1, end |-> c2] : c1, c2 \in Coordinates}
    \cap {sel \in [type : {"property"}, start : Coordinates, end : Coordinates] :
            sel.start.path = sel.end.path /\ sel.start.offset <= sel.end.offset}
ContainerSelections ==
  {sel \in [type : {"container"}, start : Coordinates, end : Coordinates] :
     isBefore(sel.start, sel.end, FALSE)}

isContainerSelection(sel) == sel.type = "container"
isPropertySelection(sel) == sel.type = "property"

\* the annotations a document can hold
Annotations ==
  {[type |-> t, start |-> sel.start, end |-> sel.end] :
     t \in PropertyAnnoTypes, sel \in PropertySelections}
  \cup {[type |-> t, start |-> sel.start, end |-> sel.end] :
     t \in ContainerAnnoTypes, sel \in ContainerSelections}

\* AbstractAnnotation.getSelection
getSelection(anno) ==
  IF isContainerAnnotation(anno)
    THEN [type |-> "container", start |-> anno.start, end |-> anno.end]
    ELSE [type |-> "property", start |-> anno.start,
          end |-> [path |-> anno.start.path, offset |-> anno.end.offset]]

\* AbstractAnnotation.updateRange: the coordinates of the annotation are set
\* to those of the selection where they differ
updateRange(anno, sel) ==
  IF isContainerSelection(sel)
    THEN [anno EXCEPT !.start = sel.start, !.end = sel.end]
    ELSE [anno EXCEPT !.start.offset = sel.start.offset,
                      !.end.offset = sel.end.offset]

\* ------------------------------------------------- Selection range algebra
\* the two ranges share more than a boundary
overlaps(s1, s2) ==
  /\ isBefore(s1.start, s2.end, TRUE)
  /\ isBefore(s2.start, s1.end, TRUE)

\* other lies over the end of sel: it starts inside and reaches the end
overlapsEnd(sel, other) ==
  /\ isBefore(sel.start, other.start, TRUE)
  /\ isBefore(other.start, sel.end, TRUE)
  /\ isBefore(sel.end, other.end, FALSE)

\* other lies over the start of sel: it ends inside and reaches the start
overlapsStart(sel, other) ==
  /\ isBefore(other.start, sel.start, FALSE)
  /\ isBefore(sel.start, other.end, TRUE)
  /\ isBefore(other.end, sel.end, TRUE)

\* truncation is defined when exactly one side lies inside other, or none
canTruncateWith(sel, other) ==
  overlapsEnd(sel, other) \/ overlapsStart(sel, other) \/ ~overlaps(sel, other)

truncateWith_clipToEnd(sel, other) ==
  IF overlapsEnd(sel, other) THEN [sel EXCEPT !.end = other.end]
  ELSE IF overlapsStart(sel, other) THEN [sel EXCEPT !.start = other.end]
  ELSE sel

\* the side of sel that lies inside other is clipped to the nearest boundary
\* of other
truncateWith(sel, other) ==
  IF overlapsEnd(sel, other) THEN [sel EXCEPT !.end = other.start]
  ELSE IF overlapsStart(sel, other) THEN [sel EXCEPT !.start = other.end]
  ELSE sel

\* a property selection expands on its property only, and not with a
\* container selection
canExpandWith(sel, other) ==
  isPropertySelection(sel) =>
    isPropertySelection(other) /\ other.start.path = sel.start.path

expand_toSelection(sel, other) ==
  [sel EXCEPT !.start = other.start, !.end = other.end]

\* the smallest range that contains sel and other
expand(sel, other) ==
  [sel EXCEPT !.start = minCoor(sel.start, other.start),
              !.end = maxCoor(sel.end, other.end)]

\* ------------------------------------------------------- annotationHelpers
\* truncateAnnotation(tx, anno, sel)
truncated(anno, sel) == updateRange(anno, truncateWith(getSelection(anno), sel))

\* expandAnnotation(tx, anno, sel)
expanded(anno, sel) == updateRange(anno, expand(getSelection(anno), sel))

\* the survivor of a fuse among the first n inputs: the earliest start, the
\* first in input order among equal starts
RECURSIVE survivor(_, _, _)
survivor(as, ids, n) ==
  IF n = 1 THEN ids[1]
  ELSE LET s == survivor(as, ids, n - 1)
       IN  IF isBefore(as[ids[n]].start, as[s].start, TRUE) THEN ids[n] ELSE s

\* the latest end among the first n inputs
RECURSIVE latestEnd(_, _, _)
latestEnd(as, ids, n) ==
  IF n = 1 THEN as[ids[1]].end
  ELSE maxCoor(latestEnd(as, ids, n - 1), as[ids[n]].end)

fused_keepFirst(as, ids) ==
  LET s == ids[1]
      sel == [getSelection(as[s]) EXCEPT !.end = latestEnd(as, ids, Len(ids))]
  IN  [id \in HelperAnnoIds |->
         IF id = s THEN updateRange(as[s], sel)
         ELSE IF \E i \in DOMAIN ids : ids[i] = id THEN NoAnno
         ELSE as[id]]

\* fuseAnnotation(tx, annos): the annotations afterwards
fused(as, ids) ==
  LET s == survivor(as, ids, Len(ids))
      sel == [getSelection(as[s]) EXCEPT !.end = latestEnd(as, ids, Len(ids))]
  IN  [id \in HelperAnnoIds |->
         IF id = s THEN updateRange(as[s], sel)
         ELSE IF \E i \in DOMAIN ids : ids[i] = id THEN NoAnno
         ELSE as[id]]

\* the selections a helper is called with for an annotation
HelperSelections(anno) ==
  IF isContainerAnnotation(anno)
    THEN PropertySelections \cup ContainerSelections
    ELSE PropertySelections

\* the inputs of fuseAnnotation: the annotations in either order
FuseInputs == {<<"a1", "a2">>, <<"a2", "a1">>}

\* doc.create of an annotation
createAnnotation ==
  \E id \in HelperAnnoIds, anno \in Annotations :
    /\ docAnnos[id] = NoAnno
    /\ docAnnos' = [docAnnos EXCEPT ![id] = anno]
    /\ helped' = NoHelp

\* annotationHelpers.truncateAnnotation(doc, anno, sel)
truncateAnnotation ==
  \E id \in HelperAnnoIds :
    /\ docAnnos[id] # NoAnno
    /\ \E sel \in HelperSelections(docAnnos[id]) :
         /\ canTruncateWith(getSelection(docAnnos[id]), sel)
         /\ docAnnos' = [docAnnos EXCEPT ![id] = truncated(@, sel)]
         /\ helped' = [op |-> "truncate", ids |-> <<id>>, sel |-> sel,
                       before |-> docAnnos]

\* annotationHelpers.expandAnnotation(doc, anno, sel)
expandAnnotation ==
  \E id \in HelperAnnoIds :
    /\ docAnnos[id] # NoAnno
    /\ \E sel \in HelperSelections(docAnnos[id]) :
         /\ canExpandWith(getSelection(docAnnos[id]), sel)
         /\ docAnnos' = [docAnnos EXCEPT ![id] = expanded(@, sel)]
         /\ helped' = [op |-> "expand", ids |-> <<id>>, sel |-> sel,
                       before |-> docAnnos]

\* annotationHelpers.fuseAnnotation(tx, annos): all annotations are of the
\* same type, property annotations on the same property
fuseAnnotation ==
  \E ids \in FuseInputs :
    /\ \A i \in DOMAIN ids : docAnnos[ids[i]] # NoAnno
    /\ \A i \in DOMAIN ids :
         /\ docAnnos[ids[i]].type = docAnnos[ids[1]].type
         /\ isContainerAnnotation(docAnnos[ids[1]])
              \/ docAnnos[ids[i]].start.path = docAnnos[ids[1]].start.path
    /\ docAnnos' = fused(docAnnos, ids)
    /\ helped' = [op |-> "fuse", ids |-> ids, sel |-> [type |-> "none"],
                  before |-> docAnnos]

\* a selection that is neither a container nor a property selection
CustomSelection == [type |-> "custom"]

\* tx.set([id, ...], value) as _updateRange issues it
SetOp(property, value) == [property |-> property, value |-> value]

\* the calls of tx.set in AbstractAnnotation._updateRange(tx, sel), in order
rangeOps(anno, sel) ==
  IF isContainerSelection(sel)
    THEN (IF anno.start.path # sel.start.path
            THEN <<SetOp(<<"start", "path">>, sel.start.path)>> ELSE <<>>)
         \o (IF anno.start.offset # sel.start.offset
               THEN <<SetOp(<<"start", "offset">>, sel.start.offset)>> ELSE <<>>)
         \o (IF anno.end.path # sel.end.path
               THEN <<SetOp(<<"end", "path">>, sel.end.path)>> ELSE <<>>)
         \o (IF anno.end.offset # sel.end.offset
               THEN <<SetOp(<<"end", "offset">>, sel.end.offset)>> ELSE <<>>)
    ELSE (IF anno.start.path # sel.start.path
            THEN <<SetOp(<<"path">>, sel.start.path)>> ELSE <<>>)
         \o (IF anno.start.offset # sel.start.offset
               THEN <<SetOp(<<"start", "offset">>, sel.start.offset)>> ELSE <<>>)
         \o (IF anno.end.offset # sel.end.offset
               THEN <<SetOp(<<"end", "offset">>, sel.end.offset)>> ELSE <<>>)

\* tx.set on an annotation: start and end are the properties define()
\* declares; path is a getter of start.path and no property of the node, so
\* a value set under it reaches neither coordinate
setProperty(anno, op) ==
  IF op.property = <<"start", "path">> THEN [anno EXCEPT !.start.path = op.value]
  ELSE IF op.property = <<"start", "offset">>
    THEN [anno EXCEPT !.start.offset = op.value]
  ELSE IF op.property = <<"end", "path">> THEN [anno EXCEPT !.end.path = op.value]
  ELSE IF op.property = <<"end", "offset">>
    THEN [anno EXCEPT !.end.offset = op.value]
  ELSE anno

\* the annotation after the calls of tx.set, applied in order
RECURSIVE applySets(_, _)
applySets(anno, ops) ==
  IF ops = <<>> THEN anno ELSE applySets(setProperty(anno, Head(ops)), Tail(ops))

\* anno._updateRange(tx, sel) with a container, a property or another
\* selection
updateRangeCall ==
  \E id \in HelperAnnoIds :
    /\ docAnnos[id] # NoAnno
    /\ helped = NoHelp
    /\ \E sel \in PropertySelections \cup ContainerSelections \cup {CustomSelection} :
         LET invalid == ~isContainerSelection(sel) /\ ~isPropertySelection(sel)
             sets == IF invalid THEN <<>> ELSE rangeOps(docAnnos[id], sel)
         IN /\ docAnnos' = [docAnnos EXCEPT ![id] = applySets(@, sets)]
            /\ helped' = [op |-> "updateRange", ids |-> <<id>>, sel |-> sel,
                          before |-> docAnnos, sets |-> sets, threw |-> invalid]

\* fixture(A1), fixture(CA1): a document with one annotation
HelpersInit ==
  /\ docAnnos \in {as \in [HelperAnnoIds -> Annotations \cup {NoAnno}] :
                     as["a1"] # NoAnno /\ as["a2"] = NoAnno}
  /\ helped = NoHelp

\* fixture(A1, A2), fixture(CA1, CA2): a document with two annotations
FuseInit ==
  /\ docAnnos \in {as \in [HelperAnnoIds -> Annotations \cup {NoAnno}] :
                     as["a1"] # NoAnno /\ as["a2"] # NoAnno}
  /\ helped = NoHelp

\* the annotations while another part is exercised
HelpersIdle ==
  /\ docAnnos = [id \in HelperAnnoIds |-> NoAnno]
  /\ helped = NoHelp

\* =========================================================== DocumentSession
\* a DocumentChange: its identity, the number of its ops and info.action
Change(id, ops, action) == [id |-> id, ops |-> ops, action |-> action]
\* a missing change: null or undefined
NoChange == Change(0, 0, "missing")

\* the statements of _applyChange after the check of the change, in order
applyChangeSteps_notifyFirst ==
  << "_notifyChangeListeners", "_apply", "emit" >>

applyChangeSteps ==
  << "_apply", "_notifyChangeListeners", "emit" >>

\* the statements of updateNodeStates after the pseudo change is built
updateNodeStatesSteps(silent) ==
  IF silent THEN <<>> ELSE << "_notifyChangeListeners", "emit" >>

\* an operation on the document directly: the document applies the ops and
\* triggers 'document:changed'
directSteps == << "_apply", "_notifyChangeListeners" >>

onDocumentChange_recordAll(h, change) ==
  IF change # NoChange THEN Append(h, change) ELSE h

\* DocumentSession._onDocumentChange: this._history afterwards
onDocumentChange(h, change) ==
  IF change # NoChange /\ change.ops > 0 THEN Append(h, change) ELSE h

Event(kind, change) == [kind |-> kind, change |-> change]

Running == todo # <<>>

\* a method of the session starts on a new change
call(change, steps) ==
  /\ ~Running
  /\ nextId < MaxChanges
  /\ nextId' = nextId + 1
  /\ current' = change
  /\ todo' = steps
  /\ UNCHANGED <<history, disposed, events, received, errors>>

\* DocumentSession._commitChange(change, info) with a change: the timestamp
\* is set and _applyChange starts
commitChange ==
  \E ops \in 0..MaxOps :
    call(Change(nextId + 1, ops, "commit"), applyChangeSteps)

\* _commitChange / _applyChange without a change: an error is thrown
commitMissingChange ==
  /\ ~Running
  /\ nextId < MaxChanges
  /\ nextId' = nextId + 1
  /\ errors' = errors + 1
  /\ UNCHANGED <<history, disposed, events, received, todo, current>>

\* DocumentSession.updateNodeStates(tuples, options): a pseudo change without
\* ops
updateNodeStates ==
  \E silent \in BOOLEAN :
    call(Change(nextId + 1, 0, "node-state-update"), updateNodeStatesSteps(silent))

\* an operation on the document directly
directChange ==
  \E ops \in 1..MaxOps :
    call(Change(nextId + 1, ops, "direct"), directSteps)

\* the next statement of the running method
step ==
  /\ Running
  /\ todo' = Tail(todo)
  /\ events' = Append(events, Event(Head(todo), current))
  /\ IF Head(todo) = "_notifyChangeListeners" /\ ~disposed
       THEN /\ received' = Append(received, current)
            /\ history' = onDocumentChange(history, current)
       ELSE UNCHANGED <<received, history>>
  /\ UNCHANGED <<disposed, current, errors, nextId>>

\* DocumentSession.dispose: doc.off(this)
dispose ==
  /\ ~Running
  /\ ~disposed
  /\ disposed' = TRUE
  /\ UNCHANGED <<history, events, received, todo, current, errors, nextId>>

\* new DocumentSession(doc)
SessionInit ==
  /\ history = <<>>
  /\ disposed = FALSE
  /\ events = <<>>
  /\ received = <<>>
  /\ todo = <<>>
  /\ current = NoChange
  /\ errors = 0
  /\ nextId = 0

\* ===================================================== editing a container
\* uuid(): the ids of the nodes are 1, 2, ... in the order of their creation;
\* the container starts with a text node or with a list and its items, and the
\* verb that reaches the bound creates at most two nodes
EditNodeIds == 1..(1 + MaxItems + MaxCreated + 2)

\* the ids of the annotations: an annotation is split into at most as many
\* pieces as it covers characters
MarkIds == 1..MaxText

\* the characters of the text the container starts with are 1, 2, ...
TextOf(n) == [i \in 1..n |-> i]

\* containerProp.defaultTextType
defaultTextType == "paragraph"

TextTypes == {"paragraph", "heading"}

\* tx.get(id) of an id that does not exist
Absent == [type |-> "none", content |-> <<>>, items |-> <<>>]

\* no annotation of this id
Unmarked == [type |-> "none", path |-> 0, start |-> 0, end |-> 0]

\* no lastVerb has been executed yet
NoVerb == [name |-> "none"]

\* node.isText() of a node of the container
isText(node) == node.type \in TextTypes

\* node.isList()
isList(node) == node.type = "list"

isListItem(node) == node.type = "list-item"

\* the ids of the nodes that exist
existing(t) == {id \in EditNodeIds : t.nodes[id] # Absent}

\* the list that holds the item in its items
listOf(t, itemId) ==
  CHOOSE l \in EditNodeIds : isList(t.nodes[l]) /\ itemId \in Range(t.nodes[l].items)

\* getContainerRoot(tx, containerPath, nodeId): the list of a list item, the
\* node itself otherwise
getContainerRoot(t, nodeId) ==
  IF isListItem(t.nodes[nodeId]) THEN listOf(t, nodeId) ELSE nodeId

\* getContainerPosition(tx, containerPath, nodeId), node.getPosition()
getContainerPosition(t, nodeId) == indexOf(t.body, nodeId)

\* list.getItemPosition(item)
getItemPosition(t, listId, itemId) == indexOf(t.nodes[listId].items, itemId)

\* array.splice(pos, 0, x), pos is 0-based
spliceIn(seq, pos, x) ==
  SubSeq(seq, 1, pos) \o <<x>> \o SubSeq(seq, pos + 1, Len(seq))

\* array.splice(pos, 1), pos is 0-based
spliceOut(seq, pos) == SubSeq(seq, 1, pos) \o SubSeq(seq, pos + 2, Len(seq))

\* the op the transaction records
record(t, op) == [t EXCEPT !.ops = Append(@, op)]

\* tx.create(nodeData): the new node gets the id t.uuid + 1
txCreate(t, node) ==
  record([t EXCEPT !.nodes[t.uuid + 1] = node, !.uuid = @ + 1], "create")

\* this.createTextNode(tx, containerPath, text)
createTextNode(t, text) ==
  txCreate(t, [type |-> defaultTextType, content |-> text, items |-> <<>>])

\* this.createListNode(tx, containerPath, params)
createListNode(t) ==
  txCreate(t, [type |-> "list", content |-> <<>>, items |-> <<>>])

\* list.createListItem(text)
createListItem(t, text) ==
  txCreate(t, [type |-> "list-item", content |-> text, items |-> <<>>])

\* insertAt(tx, containerPath, pos, id)
insertAt(t, pos, id) ==
  record([t EXCEPT !.body = spliceIn(@, pos, id)], "insertAt")

\* removeAt(tx, containerPath, pos)
removeAt(t, pos) ==
  record([t EXCEPT !.body = spliceOut(@, pos)], "removeAt")

\* list.insertItemAt(pos, item)
insertItemAt(t, listId, pos, itemId) ==
  record([t EXCEPT !.nodes[listId].items = spliceIn(@, pos, itemId)],
         "insertItemAt")

\* list.appendItem(item)
appendItem(t, listId, itemId) ==
  record([t EXCEPT !.nodes[listId].items = Append(@, itemId)], "appendItem")

\* list.removeItemAt(pos): the item leaves the items, it is not deleted
removeItemAt(t, listId, pos) ==
  record([t EXCEPT !.nodes[listId].items = spliceOut(@, pos)], "removeItemAt")

\* list.removeItem(item)
removeItem(t, listId, itemId) ==
  removeItemAt(t, listId, getItemPosition(t, listId, itemId))

\* the node and the nodes it owns: the items of a list
subtree(t, id) == {id} \cup Range(t.nodes[id].items)

\* deepDeleteNode(tx, node): deletes the node, the nodes it owns and every
\* annotation attached to one of them
deepDeleteNode(t, id) ==
  record([t EXCEPT
            !.nodes = [n \in EditNodeIds |->
                         IF n \in subtree(t, id) THEN Absent ELSE @[n]],
            !.annos = [a \in MarkIds |->
                         IF @[a].path \in subtree(t, id) THEN Unmarked ELSE @[a]]],
         "deepDeleteNode")

\* tx.update(path, { type: 'delete', start, end })
updateDelete(t, path, start, end) ==
  record([t EXCEPT !.nodes[path].content =
                     SubSeq(@, 1, start) \o SubSeq(@, end + 1, Len(@))],
         "update")

\* AbstractAnnotation.canSplit
canSplit(anno) == TRUE

\* the annotations attached to the text of the node
marksOn(t, path) == {a \in MarkIds : t.annos[a] # Unmarked /\ t.annos[a].path = path}

\* an annotation that starts at or after the offset moves to the new path and
\* keeps its distance to the offset
transferOne(anno, offset, newPath, newOffset) ==
  [anno EXCEPT !.path = newPath,
               !.start = newOffset + anno.start - offset,
               !.end = newOffset + anno.end - offset]

\* annotationHelpers.transferAnnotations(tx, path, offset, newPath, newOffset):
\* an annotation around the offset is truncated to end at the offset and, if
\* it can be split, a new annotation covers the rest on the new path
transferAnnotations(t, path, offset, newPath, newOffset) ==
  LET inside == {a \in marksOn(t, path) :
                   t.annos[a].start < offset /\ offset < t.annos[a].end}
      after == {a \in marksOn(t, path) : t.annos[a].start >= offset}
      split == {a \in inside : canSplit(t.annos[a])}
      newId(a) == t.markUuid + Cardinality({b \in split : b <= a})
      rest(a) == [t.annos[a] EXCEPT !.path = newPath,
                                    !.start = newOffset,
                                    !.end = newOffset + @ - offset]
  IN record([t EXCEPT
       !.annos = [k \in MarkIds |->
          IF k \in inside THEN [t.annos[k] EXCEPT !.end = offset]
          ELSE IF k \in after
            THEN transferOne(t.annos[k], offset, newPath, newOffset)
          ELSE IF \E a \in split : newId(a) = k
            THEN rest(CHOOSE a \in split : newId(a) = k)
          ELSE t.annos[k]],
       !.markUuid = @ + Cardinality(split)], "transferAnnotations")

\* the result of a lastVerb: the transaction and the selection it has set
Done(t, path, offset) == [tx |-> t, sel |-> [path |-> path, offset |-> offset]]

\* the result of a verb that sets the selection it is given
DoneAt(t, sel) == [tx |-> t, sel |-> sel]

\* the result of a verb that throws
Thrown(t, sel, message) == [tx |-> t, sel |-> sel, error |-> message]

\* the verb has thrown
threw(done) == "error" \in DOMAIN done

\* the result of a verb that returns without handling its selection, after a
\* console.error or in an empty else branch
Unhandled(t, sel) == [tx |-> t, sel |-> sel, unhandled |-> TRUE]

\* the verb has returned without handling its selection
unhandled(done) == "unhandled" \in DOMAIN done

\* the loop of list.removeItem over the ids, in the order of the sequence
RECURSIVE removeItems(_, _, _)
removeItems(t, listId, ids) ==
  IF ids = <<>> THEN t
  ELSE removeItems(removeItem(t, listId, Head(ids)), listId, Tail(ids))

\* the loop of list.appendItem over the ids, in the order of the sequence
RECURSIVE appendItems(_, _, _)
appendItems(t, listId, ids) ==
  IF ids = <<>> THEN t
  ELSE appendItems(appendItem(t, listId, Head(ids)), listId, Tail(ids))

\* the sequence from its last element to its first
reverse(seq) == [i \in 1..Len(seq) |-> seq[Len(seq) + 1 - i]]

\* Editing._breakTextNode
breakTextNode_noTransfer(t, nodeId, coor) ==
  LET path == coor.path
      offset == coor.offset
      nodePos == getContainerPosition(t, nodeId)
      text == t.nodes[nodeId].content
      newId == t.uuid + 1
  IN IF offset = 0
       THEN Done(insertAt(txCreate(t, [t.nodes[nodeId] EXCEPT !.content = <<>>]),
                          nodePos, newId),
                 path, 0)
       ELSE
         LET created ==
               txCreate(t, [t.nodes[nodeId] EXCEPT
                              !.content = SubSeq(text, offset + 1, Len(text)),
                              !.type = IF offset = Len(text)
                                         THEN defaultTextType ELSE @])
             truncatedText ==
               IF offset < Len(text)
                 THEN updateDelete(created, path, offset, Len(text))
                 ELSE created
         IN Done(insertAt(truncatedText, nodePos + 1, newId), newId, 0)

breakTextNode(t, nodeId, coor) ==
  LET path == coor.path
      offset == coor.offset
      nodePos == getContainerPosition(t, nodeId)
      text == t.nodes[nodeId].content
      newId == t.uuid + 1
  IN IF offset = 0
       THEN Done(insertAt(txCreate(t, [t.nodes[nodeId] EXCEPT !.content = <<>>]),
                          nodePos, newId),
                 path, 0)
       ELSE
         LET created ==
               txCreate(t, [t.nodes[nodeId] EXCEPT
                              !.content = SubSeq(text, offset + 1, Len(text)),
                              !.type = IF offset = Len(text)
                                         THEN defaultTextType ELSE @])
             truncatedText ==
               IF offset < Len(text)
                 THEN updateDelete(
                        transferAnnotations(created, path, offset, newId, 0),
                        path, offset, Len(text))
                 ELSE created
         IN Done(insertAt(truncatedText, nodePos + 1, newId), newId, 0)

\* Editing._breakListNode
breakListNode(t, listId, coor) ==
  LET itemId == coor.path
      offset == coor.offset
      items == t.nodes[listId].items
      L == Len(items)
      itemPos == getItemPosition(t, listId, itemId)
      text == t.nodes[itemId].content
      nodePos == getContainerPosition(t, listId)
      newId == t.uuid + 1
  IN IF offset = 0 /\ text = <<>>
       THEN
         LET withText == createTextNode(t, <<>>)
         IN IF L < 2
              THEN Done(insertAt(deepDeleteNode(removeAt(withText, nodePos), listId),
                                 nodePos, newId),
                        newId, 0)
            ELSE IF itemPos = 0
              THEN Done(insertAt(deepDeleteNode(removeItem(withText, listId, itemId),
                                                itemId),
                                 nodePos, newId),
                        newId, 0)
            ELSE IF itemPos >= L - 1
              THEN Done(insertAt(deepDeleteNode(removeItem(withText, listId, itemId),
                                                itemId),
                                 nodePos + 1, newId),
                        newId, 0)
            ELSE
              LET tail == SubSeq(items, itemPos + 2, L)
                  withoutTail == removeItems(withText, listId, reverse(tail))
                  withoutItem == removeItem(withoutTail, listId, itemId)
                  newListId == withoutItem.uuid + 1
                  withList == appendItems(createListNode(withoutItem), newListId, tail)
              IN Done(insertAt(insertAt(withList, nodePos + 1, newId),
                               nodePos + 2, newListId),
                      newId, 0)
     ELSE IF offset = 0
       THEN Done(insertItemAt(txCreate(t, [t.nodes[itemId] EXCEPT !.content = <<>>]),
                              listId, itemPos, newId),
                 itemId, 0)
     ELSE
       LET created ==
             txCreate(t, [t.nodes[itemId] EXCEPT
                            !.content = SubSeq(text, offset + 1, Len(text))])
           truncatedText ==
             IF offset < Len(text)
               THEN updateDelete(
                      transferAnnotations(created, itemId, offset, newId, 0),
                      itemId, offset, Len(text))
               ELSE created
       IN Done(insertItemAt(truncatedText, listId, itemPos + 1, newId), newId, 0)

\* Editing._breakNode: the verb works on the root of the node in the
\* container; for a root that is neither a text node nor a list it logs
\* 'FIXME: _breakNode() not supported for type' and returns
breakNode(t, nodeId, coor) ==
  LET root == getContainerRoot(t, nodeId)
  IN IF isText(t.nodes[root]) THEN breakTextNode(t, root, coor)
     ELSE IF isList(t.nodes[root]) THEN breakListNode(t, root, coor)
     ELSE Unhandled(t, [path |-> coor.path, offset |-> coor.offset])

\* the text branch of Editing.toggleList: the text node becomes a list of one
\* item
toggleTextNode_deleteFirst(t, nodeId, sel) ==
  LET nodePos == getContainerPosition(t, nodeId)
      removed == removeAt(t, nodePos)
      newListId == removed.uuid + 1
      withList == createListNode(removed)
      newItemId == withList.uuid + 1
      withItem == createListItem(withList, t.nodes[nodeId].content)
      cleared == deepDeleteNode(withItem, nodeId)
      transferred == transferAnnotations(cleared, nodeId, 0, newItemId, 0)
      deleted == appendItem(transferred, newListId, newItemId)
  IN Done(insertAt(deleted, nodePos, newListId), newItemId, sel.offset)

toggleTextNode(t, nodeId, sel) ==
  LET nodePos == getContainerPosition(t, nodeId)
      removed == removeAt(t, nodePos)
      newListId == removed.uuid + 1
      withList == createListNode(removed)
      newItemId == withList.uuid + 1
      withItem == createListItem(withList, t.nodes[nodeId].content)
      transferred == transferAnnotations(withItem, nodeId, 0, newItemId, 0)
      appended == appendItem(transferred, newListId, newItemId)
      deleted == deepDeleteNode(appended, nodeId)
  IN Done(insertAt(deleted, nodePos, newListId), newItemId, sel.offset)

\* the list branch of Editing.toggleList: the item becomes a text node
toggleListItem(t, listId, sel) ==
  LET itemId == sel.path
      nodePos == getContainerPosition(t, listId)
      itemPos == getItemPosition(t, listId, itemId)
      newTextId == t.uuid + 1
      withText == createTextNode(t, t.nodes[itemId].content)
      transferred == transferAnnotations(withText, itemId, 0, newTextId, 0)
      taken == removeItemAt(transferred, listId, itemPos)
      items == taken.nodes[listId].items
  IN IF items = <<>>
       THEN Done(insertAt(deepDeleteNode(removeAt(taken, nodePos), listId),
                          nodePos, newTextId),
                 newTextId, sel.offset)
     ELSE IF itemPos = 0
       THEN Done(insertAt(taken, nodePos, newTextId), newTextId, sel.offset)
     ELSE IF Len(items) <= itemPos
       THEN Done(insertAt(taken, nodePos + 1, newTextId), newTextId, sel.offset)
     ELSE
       LET tail == SubSeq(items, itemPos + 1, Len(items))
           withoutTail ==
             [taken EXCEPT !.nodes[listId].items = SubSeq(items, 1, itemPos),
                           !.ops = @ \o [i \in 1..Len(tail) |-> "removeItemAt"]]
           newListId == withoutTail.uuid + 1
           withList == appendItems(createListNode(withoutTail), newListId, tail)
       IN Done(insertAt(insertAt(withList, nodePos + 1, newTextId),
                        nodePos + 2, newListId),
               newTextId, sel.offset)

\* the transaction a lastVerb starts with: no op is recorded yet
begin(t) == [t EXCEPT !.ops = <<>>]

\* the nodes a property selection in the container can address: the text
\* nodes of the container and the items of its lists
selectable(t) ==
  {id \in existing(t) :
     \/ id \in Range(t.body) /\ isText(t.nodes[id])
     \/ isListItem(t.nodes[id]) /\
          \E l \in Range(t.body) : isList(t.nodes[l]) /\ id \in Range(t.nodes[l].items)}

\* tx.setSelection: the collapsed property selections in the container
cursors(t) ==
  {[path |-> id, offset |-> offset] :
     id \in selectable(t), offset \in 0..MaxText} \cap
  {sel \in [path : EditNodeIds, offset : 0..MaxText] :
     sel.offset <= Len(t.nodes[sel.path].content)}

\* a transaction that sets a collapsed property selection in the container
\* and calls Editing.break; every verb creates a node, and the nodes the verbs
\* create are bounded
break ==
  \E sel \in cursors(tx) :
    /\ tx.uuid < tx.first + MaxCreated
    /\ LET done == breakNode(begin(tx), sel.path, sel)
       IN /\ done.tx.uuid <= tx.first + MaxCreated
          /\ tx' = done.tx
          /\ txSelection' = done.sel
    /\ lastVerb' = [name |-> "break", sel |-> sel, before |-> begin(tx)]

\* a transaction that sets a collapsed property selection in the container
\* and calls Editing.toggleList
toggleList ==
  \E sel \in cursors(tx) :
    /\ tx.uuid < tx.first + MaxCreated
    /\ LET root == getContainerRoot(tx, sel.path)
           done == IF isText(tx.nodes[root])
                     THEN toggleTextNode(begin(tx), root, sel)
                     ELSE toggleListItem(begin(tx), root, sel)
       IN /\ done.tx.uuid <= tx.first + MaxCreated
          /\ tx' = done.tx
          /\ txSelection' = done.sel
    /\ lastVerb' = [name |-> "toggleList", sel |-> sel, before |-> begin(tx)]

\* a document whose container holds one text node, with or without an
\* annotation on it
textFixture(type, n, anno) ==
  [nodes |-> [id \in EditNodeIds |->
                IF id = 1
                  THEN [type |-> type, content |-> TextOf(n), items |-> <<>>]
                  ELSE Absent],
   body |-> <<1>>,
   annos |-> [a \in MarkIds |-> IF a = 1 THEN anno ELSE Unmarked],
   uuid |-> 1,
   first |-> 1,
   markUuid |-> 1,
   ops |-> <<>>]

\* a document whose container holds one list; item i has the text texts[i],
\* with or without an annotation on the first item
listFixture(texts, anno) ==
  [nodes |-> [id \in EditNodeIds |->
                IF id = 1
                  THEN [type |-> "list", content |-> <<>>,
                        items |-> [i \in 1..Len(texts) |-> i + 1]]
                ELSE IF id <= 1 + Len(texts)
                  THEN [type |-> "list-item", content |-> texts[id - 1],
                        items |-> <<>>]
                ELSE Absent],
   body |-> <<1>>,
   annos |-> [a \in MarkIds |-> IF a = 1 THEN anno ELSE Unmarked],
   uuid |-> 1 + Len(texts),
   first |-> 1 + Len(texts),
   markUuid |-> 1,
   ops |-> <<>>]

\* the annotations the text of length n of the node can start with
fixtureAnnos(id, n) ==
  {Unmarked} \cup
  {[type |-> "strong", path |-> id, start |-> st, end |-> en] :
     st \in 0..n, en \in 0..n}

EditInit ==
  /\ \/ \E type \in TextTypes : \E n \in 0..MaxText :
        \E anno \in fixtureAnnos(1, n) :
          /\ anno = Unmarked \/ anno.start < anno.end
          /\ tx = textFixture(type, n, anno)
          /\ txSelection = [path |-> 1, offset |-> 0]
     \/ \E k \in 1..MaxItems : \E texts \in [1..k -> {<<>>, TextOf(MaxText)}] :
        \E anno \in fixtureAnnos(2, Len(texts[1])) :
          /\ anno = Unmarked \/ anno.start < anno.end
          /\ tx = listFixture(texts, anno)
          /\ txSelection = [path |-> 2, offset |-> 0]
  /\ lastVerb = NoVerb

\* the container while another part of the document is exercised
EditIdle ==
  /\ tx = textFixture(defaultTextType, 0, Unmarked)
  /\ txSelection = [path |-> 1, offset |-> 0]
  /\ lastVerb = NoVerb


\* ------------------------------------------------- delete and the merges
\* a node of the container that is neither a text node nor a list: it has a
\* text property, its caption, and the verbs do not know how to change it
isBlock(node) == node.type = "figure"

\* a node selection
NodeSelection(nodeId, mode) == [node |-> nodeId, mode |-> mode]

\* the selection is a node selection
isNodeSelection(sel) == "node" \in DOMAIN sel

\* selectionHelpers.setCursor(tx, node, containerPath, mode): a cursor at the
\* start or the end of a text node, of the first or the last item of a list,
\* and a node selection before or after any other node
setCursor(t, nodeId, mode) ==
  LET node == t.nodes[nodeId]
      at(id) == [path |-> id,
                 offset |-> IF mode = "before" THEN 0 ELSE Len(t.nodes[id].content)]
  IN IF isText(node) THEN at(nodeId)
     ELSE IF isList(node) /\ node.items # <<>>
       THEN at(IF mode = "before" THEN Head(node.items)
               ELSE node.items[Len(node.items)])
     ELSE NodeSelection(nodeId, mode)

\* selectionHelpers.selectNode(tx, nodeId, containerPath)
selectNode(t, nodeId) == NodeSelection(nodeId, "full")

\* tx.update(path, { type: 'insert', start, text })
updateInsert(t, path, start, text) ==
  record([t EXCEPT !.nodes[path].content = insertTextAt(@, start, text)], "update")

\* the text of the source is appended to the target, its annotations are
\* transferred to the target, and the source is deleted
appendAndDelete_noTransfer(t, sourceId, targetId) ==
  LET targetLength == Len(t.nodes[targetId].content)
      appended == updateInsert(t, targetId, targetLength, t.nodes[sourceId].content)
  IN deepDeleteNode(appended, sourceId)

appendAndDelete(t, sourceId, targetId) ==
  LET targetLength == Len(t.nodes[targetId].content)
      appended == updateInsert(t, targetId, targetLength, t.nodes[sourceId].content)
      transferred == transferAnnotations(appended, sourceId, 0, targetId, targetLength)
  IN deepDeleteNode(transferred, sourceId)

\* documentHelpers.mergeListItems(tx, listId, itemPos): the item after
\* itemPos is merged into the item at itemPos
mergeListItems(t, listId, itemPos) ==
  LET items == t.nodes[listId].items
      targetId == items[itemPos + 1]
      sourceId == items[itemPos + 2]
  IN appendAndDelete(removeItemAt(t, listId, itemPos + 1), sourceId, targetId)

\* the loop of _mergeTwoLists: second.removeItemAt(0), first.appendItem(item)
RECURSIVE moveItems(_, _, _, _)
moveItems(t, firstId, secondId, ids) ==
  IF ids = <<>> THEN t
  ELSE moveItems(appendItem(removeItemAt(t, secondId, 0), firstId, Head(ids)),
                 firstId, secondId, Tail(ids))

\* Editing._mergeTwoLists
mergeTwoLists(t, firstId, secondId) ==
  LET removed == removeAt(t, getContainerPosition(t, secondId))
  IN deepDeleteNode(moveItems(removed, firstId, secondId, t.nodes[secondId].items),
                    secondId)

\* Editing._mergeNodes: pos is 0-based
mergeNodes_cursorAtStart(t, pos, direction) ==
  LET firstId == t.body[pos + 1]
      secondId == t.body[pos + 2]
      first == t.nodes[firstId]
      second == t.nodes[secondId]
      selected == selectNode(t, IF direction = "left" THEN firstId ELSE secondId)
  IN IF isText(first)
       THEN
         IF first.content = <<>>
           THEN LET deleted == deepDeleteNode(removeAt(t, pos), firstId)
                IN DoneAt(deleted, setCursor(deleted, secondId, "before"))
         ELSE IF isText(second)
           THEN Done(appendAndDelete(removeAt(t, pos + 1), secondId, firstId),
                     firstId, 0)
         ELSE IF isList(second)
           THEN
             LET merged == IF second.items # <<>>
                             THEN appendAndDelete(removeItemAt(t, secondId, 0),
                                                  Head(second.items), firstId)
                             ELSE t
                 pruned == IF merged.nodes[secondId].items = <<>>
                             THEN deepDeleteNode(removeAt(merged, pos + 1), secondId)
                             ELSE merged
             IN Done(pruned, firstId, Len(first.content))
         ELSE DoneAt(t, selected)
     ELSE IF isList(first)
       THEN
         IF isText(second)
           THEN
             LET targetId == first.items[Len(first.items)]
                 targetLength == Len(t.nodes[targetId].content)
                 removed == removeAt(t, pos + 1)
                 merged == IF second.content = <<>>
                             THEN deepDeleteNode(removed, secondId)
                             ELSE appendAndDelete(removed, secondId, targetId)
                 hasThird == Len(t.body) > pos + 2
                 thirdId == t.body[pos + 3]
                 joined == IF hasThird /\ t.nodes[thirdId].type = first.type
                             THEN mergeTwoLists(merged, firstId, thirdId)
                             ELSE merged
             IN Done(joined, targetId, targetLength)
         ELSE IF isList(second)
           THEN
             LET itemId == first.items[Len(first.items)]
             IN IF direction # "right"
                  THEN Thrown(t, [path |-> itemId, offset |-> 0], "Illegal state")
                  ELSE Done(mergeTwoLists(t, firstId, secondId),
                            itemId, Len(t.nodes[itemId].content))
         ELSE DoneAt(t, selected)
     ELSE IF isText(second) /\ second.content = <<>>
       THEN LET deleted == deepDeleteNode(removeAt(t, pos + 1), secondId)
            IN DoneAt(deleted, setCursor(deleted, firstId, "after"))
     ELSE DoneAt(t, selected)

mergeNodes(t, pos, direction) ==
  LET firstId == t.body[pos + 1]
      secondId == t.body[pos + 2]
      first == t.nodes[firstId]
      second == t.nodes[secondId]
      selected == selectNode(t, IF direction = "left" THEN firstId ELSE secondId)
  IN IF isText(first)
       THEN
         IF first.content = <<>>
           THEN LET deleted == deepDeleteNode(removeAt(t, pos), firstId)
                IN DoneAt(deleted, setCursor(deleted, secondId, "before"))
         ELSE IF isText(second)
           THEN Done(appendAndDelete(removeAt(t, pos + 1), secondId, firstId),
                     firstId, Len(first.content))
         ELSE IF isList(second)
           THEN
             LET merged == IF second.items # <<>>
                             THEN appendAndDelete(removeItemAt(t, secondId, 0),
                                                  Head(second.items), firstId)
                             ELSE t
                 pruned == IF merged.nodes[secondId].items = <<>>
                             THEN deepDeleteNode(removeAt(merged, pos + 1), secondId)
                             ELSE merged
             IN Done(pruned, firstId, Len(first.content))
         ELSE DoneAt(t, selected)
     ELSE IF isList(first)
       THEN
         IF isText(second)
           THEN
             LET targetId == first.items[Len(first.items)]
                 targetLength == Len(t.nodes[targetId].content)
                 removed == removeAt(t, pos + 1)
                 merged == IF second.content = <<>>
                             THEN deepDeleteNode(removed, secondId)
                             ELSE appendAndDelete(removed, secondId, targetId)
                 hasThird == Len(t.body) > pos + 2
                 thirdId == t.body[pos + 3]
                 joined == IF hasThird /\ t.nodes[thirdId].type = first.type
                             THEN mergeTwoLists(merged, firstId, thirdId)
                             ELSE merged
             IN Done(joined, targetId, targetLength)
         ELSE IF isList(second)
           THEN
             LET itemId == first.items[Len(first.items)]
             IN IF direction # "right"
                  THEN Thrown(t, [path |-> itemId, offset |-> 0], "Illegal state")
                  ELSE Done(mergeTwoLists(t, firstId, secondId),
                            itemId, Len(t.nodes[itemId].content))
         ELSE DoneAt(t, selected)
     ELSE IF isText(second) /\ second.content = <<>>
       THEN LET deleted == deepDeleteNode(removeAt(t, pos + 1), secondId)
            IN DoneAt(deleted, setCursor(deleted, firstId, "after"))
     ELSE DoneAt(t, selected)

\* Editing._merge: node is the container root of the node of the cursor; the
\* items of a list are merged when the list has an item in the direction
merge_acrossFirst(t, rootId, coor, direction) ==
  LET nodePos == getContainerPosition(t, rootId)
      here == [path |-> coor.path, offset |-> coor.offset]
  IN IF direction = "left" /\ nodePos > 0
       THEN mergeNodes(t, nodePos - 1, direction)
     ELSE IF direction = "right" /\ nodePos < Len(t.body) - 1
       THEN mergeNodes(t, nodePos, direction)
     ELSE DoneAt(t, here)

merge(t, rootId, coor, direction) ==
  LET root == t.nodes[rootId]
      itemId == coor.path
      itemPos == getItemPosition(t, rootId, itemId)
      withinListNode ==
        /\ isList(root)
        /\ \/ direction = "left" /\ itemPos > 0
           \/ direction = "right" /\ itemPos < Len(root.items) - 1
      targetPos == IF direction = "left" THEN itemPos - 1 ELSE itemPos
      nodePos == getContainerPosition(t, rootId)
      here == [path |-> coor.path, offset |-> coor.offset]
  IN IF withinListNode
       THEN LET targetId == root.items[targetPos + 1]
            IN Done(mergeListItems(t, rootId, targetPos),
                    targetId, Len(t.nodes[targetId].content))
     ELSE IF direction = "left" /\ nodePos > 0
       THEN mergeNodes(t, nodePos - 1, direction)
     ELSE IF direction = "right" /\ nodePos < Len(t.body) - 1
       THEN mergeNodes(t, nodePos, direction)
     ELSE DoneAt(t, here)


\* documentHelpers.deleteTextRange(tx, start, end) within one text property:
\* the characters are deleted and the annotations on the text are
\* repositioned as for a typeover with no text
deleteTextRange(t, path, start, end) ==
  LET moved(anno) ==
        LET after == applyOps(anno, annoOps(anno, start, end, 0, TRUE))
        IN IF after = NoAnno THEN Unmarked ELSE after
  IN record([t EXCEPT
               !.nodes[path].content = deleteText(@, start, end),
               !.annos = [a \in MarkIds |->
                            IF a \in marksOn(t, path) THEN moved(@[a]) ELSE @[a]]],
            "deleteTextRange")

\* the branch of Editing.delete for a cursor at the start of a list item and
\* the direction 'left'
togglesItem(t, rootId, sel, direction) ==
  isList(t.nodes[rootId]) /\ sel.offset = 0 /\ direction = "left"

\* sel.isContainerSelection() of a selection of a verb
spansNodes(sel) == "start" \in DOMAIN sel

\* the selection when a verb returns without having set one: a property
\* selection is followed by its path and its start offset only
kept(sel) ==
  IF isNodeSelection(sel) \/ spansNodes(sel) THEN sel
  ELSE [path |-> sel.path, offset |-> sel.offset]

\* Editing.toggleList with a property or a container selection: a node that
\* is neither a text node nor a list, and a container selection, are left
\* as they are
toggled(t, sel) ==
  IF spansNodes(sel) THEN Unhandled(t, sel)
  ELSE IF ~sel.containerPath
    THEN Thrown(t, kept(sel), "Selection must be within a container.")
  ELSE
    LET rootId == getContainerRoot(t, sel.path)
    IN IF isText(t.nodes[rootId]) THEN toggleTextNode(t, rootId, sel)
       ELSE IF isList(t.nodes[rootId]) THEN toggleListItem(t, rootId, sel)
       ELSE Unhandled(t, kept(sel))

\* Editing.delete(tx, direction) with a collapsed or a property selection
deleted_mergeAlways(t, sel, direction) ==
  LET path == sel.path
      offset == sel.offset
      text == t.nodes[path].content
      atBoundary == \/ offset = 0 /\ direction = "left"
                    \/ offset = Len(text) /\ direction = "right"
      rootId == getContainerRoot(t, path)
      startOffset == IF direction = "left" THEN offset - 1 ELSE offset
  IN IF offset # sel.endOffset
       THEN Done(deleteTextRange(t, path, offset, sel.endOffset), path, offset)
     ELSE IF atBoundary
       THEN IF togglesItem(t, rootId, sel, direction)
              THEN toggled(t, sel)
              ELSE merge(t, rootId, sel, direction)
     ELSE Done(deleteTextRange(t, path, startOffset, startOffset + 1),
               path, startOffset)

deleted(t, sel, direction) ==
  LET path == sel.path
      offset == sel.offset
      text == t.nodes[path].content
      atBoundary == \/ offset = 0 /\ direction = "left"
                    \/ offset = Len(text) /\ direction = "right"
      needsMerge == sel.containerPath /\ atBoundary
      rootId == getContainerRoot(t, path)
      startOffset == IF direction = "left" THEN offset - 1 ELSE offset
  IN IF offset # sel.endOffset
       THEN Done(deleteTextRange(t, path, offset, sel.endOffset), path, offset)
     ELSE IF needsMerge
       THEN IF togglesItem(t, rootId, sel, direction)
              THEN toggled(t, sel)
              ELSE merge(t, rootId, sel, direction)
     ELSE IF atBoundary THEN Done(t, path, offset)
     ELSE Done(deleteTextRange(t, path, startOffset, startOffset + 1),
               path, startOffset)

\* the nodes a property selection can address: the text nodes and the
\* blocks of the container and the items of its lists
addressable(t) ==
  selectable(t) \cup {id \in Range(t.body) : isBlock(t.nodes[id])}

\* tx.setSelection: the cursors on a text, with or without a containerPath,
\* and the property selections, with one
propertySelections(t) ==
  {sel \in [path : addressable(t), offset : 0..MaxText, endOffset : 0..MaxText,
            containerPath : BOOLEAN] :
     /\ sel.offset <= sel.endOffset
     /\ sel.endOffset <= Len(t.nodes[sel.path].content)
     /\ sel.offset < sel.endOffset => sel.containerPath}

Directions == {"left", "right"}

\* a transaction that sets a collapsed or a property selection in a document
\* of the fixtures and calls Editing.delete
delete ==
  \E sel \in propertySelections(tx), direction \in Directions :
    LET done == deleted(begin(tx), sel, direction)
    IN /\ lastVerb = NoVerb
       /\ done.tx.uuid \in EditNodeIds
       /\ tx' = done.tx
       /\ txSelection' = done.sel
       /\ lastVerb' = [name |-> "delete", sel |-> sel, direction |-> direction,
                       before |-> begin(tx), threw |-> threw(done)]


\* the element of a set of one element: the steps of a verb are applied one
\* after the other, each to the document the step before has produced
only(S) == CHOOSE x \in S : TRUE

\* selectionHelpers.isEntirelySelected(tx, node, start, end) of a text node;
\* start and end are offsets, NoPos for null
isEntirelySelected(t, nodeId, start, end) ==
  /\ start = NoPos \/ start = 0
  /\ end = NoPos \/ end = Len(t.nodes[nodeId].content)

\* the loop of _deleteContainerSelection over the inner nodes, from the
\* position from down to the position after to
RECURSIVE deleteInner(_, _, _)
deleteInner(t, from, to) ==
  IF from <= to THEN t
  ELSE only({deleteInner(removed, from - 1, to) :
               removed \in {deepDeleteNode(removeAt(t, from), t.body[from + 1])}})

\* Editing._deleteContainerSelection for a selection that starts and ends in
\* text nodes of the container
deleteContainerSelection(t, sel, noMerge) ==
  LET startId == sel.start.path
      endId == sel.end.path
      startPos == getContainerPosition(t, startId)
      endPos == getContainerPosition(t, endId)
      firstEntirelySelected == isEntirelySelected(t, startId, sel.start.offset, NoPos)
      lastEntirelySelected == isEntirelySelected(t, endId, NoPos, sel.end.offset)
      withoutLast ==
        IF lastEntirelySelected
          THEN deepDeleteNode(removeAt(t, endPos), endId)
          ELSE deleteTextRange(t, endId, 0, sel.end.offset)
      withoutInner(last) == deleteInner(last, endPos - 1, startPos)
      withoutFirst(inner) ==
        IF firstEntirelySelected
          THEN deepDeleteNode(removeAt(inner, startPos), startId)
          ELSE deleteTextRange(inner, startId, sel.start.offset,
                               Len(t.nodes[startId].content))
      selected(first) ==
        IF firstEntirelySelected /\ lastEntirelySelected
          THEN Done(insertAt(createTextNode(first, <<>>), startPos, first.uuid + 1),
                    first.uuid + 1, 0)
        ELSE IF ~firstEntirelySelected /\ ~lastEntirelySelected
          THEN Done(IF noMerge THEN first
                    ELSE merge(first, startId, sel.start, "right").tx,
                    startId, sel.start.offset)
        ELSE IF firstEntirelySelected
          THEN DoneAt(first, setCursor(first, endId, "before"))
        ELSE DoneAt(first, setCursor(first, startId, "after"))
  IN IF startPos = endPos
       THEN Done(deleteTextRange(t, startId, sel.start.offset, sel.end.offset),
                 startId, sel.start.offset)
     ELSE only({selected(first) :
                  first \in {withoutFirst(inner) :
                    inner \in {withoutInner(last) : last \in {withoutLast}}}})

\* the outcomes of setCursor(tx, getNextNode(tx, containerPath, nodePos), ...)
\* when the container has no node after nodePos and getNextNode returns
\* undefined: setCursor throws, or the selection is set on no node
NoNextNode == {"throws", "dangling"}

\* the id of no node
NoNodeId == 0

\* Editing.break(tx) with a node, a property or a container selection
broken(t, sel, noNext) ==
  IF isNodeSelection(sel)
    THEN
      LET nodePos == getContainerPosition(t, sel.node)
          newId == t.uuid + 1
          withText == createTextNode(t, <<>>)
      IN IF sel.mode = "before"
           THEN DoneAt(insertAt(withText, nodePos, newId), sel)
           ELSE LET inserted == insertAt(withText, nodePos + 1, newId)
                IN DoneAt(inserted, setCursor(inserted, newId, "before"))
  ELSE IF spansNodes(sel)
    THEN
      LET nodePos == getContainerPosition(t, sel.start.path)
          next(done) ==
            IF nodePos + 1 < Len(done.tx.body)
              THEN DoneAt(done.tx,
                          setCursor(done.tx, done.tx.body[nodePos + 2], "before"))
            ELSE IF noNext = "throws"
              THEN Thrown(done.tx, done.sel, "TypeError")
            ELSE DoneAt(done.tx, NodeSelection(NoNodeId, "before"))
      IN only({next(done) : done \in {deleteContainerSelection(t, sel, TRUE)}})
  ELSE
    LET collapsed == IF sel.offset # sel.endOffset
                       THEN deleteTextRange(t, sel.path, sel.offset, sel.endOffset)
                       ELSE t
    IN IF sel.containerPath THEN breakNode(collapsed, sel.path, sel)
       ELSE DoneAt(collapsed, kept(sel))


\* Editing._deleteNodeSelection
deletedNode(t, sel, direction) ==
  LET nodeId == sel.node
      nodePos == getContainerPosition(t, nodeId)
      cursorAt(id, offset) ==
        [path |-> id, offset |-> offset, endOffset |-> offset,
         containerPath |-> FALSE]
  IN IF \/ sel.mode = "full"
        \/ sel.mode = "before" /\ direction = "right"
        \/ sel.mode = "after" /\ direction = "left"
       THEN LET removed == deepDeleteNode(removeAt(t, nodePos), nodeId)
                newId == removed.uuid + 1
            IN Done(insertAt(createTextNode(removed, <<>>), nodePos, newId), newId, 0)
     ELSE IF sel.mode = "before"
       THEN IF nodePos > 0
              THEN LET previous == t.body[nodePos]
                   IN IF isText(t.nodes[previous])
                        THEN deleted(t, cursorAt(previous,
                                                 Len(t.nodes[previous].content)),
                                     direction)
                        ELSE DoneAt(t, selectNode(t, previous))
              ELSE DoneAt(t, sel)
     ELSE IF nodePos < Len(t.body) - 1
       THEN LET next == t.body[nodePos + 2]
            IN IF isText(t.nodes[next])
                 THEN deleted(t, cursorAt(next, 0), direction)
                 ELSE DoneAt(t, selectNode(t, next))
     ELSE DoneAt(t, sel)

\* Editing.delete(tx, direction) with a node selection or a container
\* selection
deletedSelection(t, sel, direction) ==
  IF isNodeSelection(sel) THEN deletedNode(t, sel, direction)
  ELSE deleteContainerSelection(t, sel, FALSE)

\* Editing._insertText(tx, sel, text) on the text of a node: the text is
\* updated and the annotations on it pass through the annotation loop
typed(t, path, startOffset, endOffset, text) ==
  LET typeover == startOffset # endOffset
      cleared == IF typeover THEN updateDelete(t, path, startOffset, endOffset)
                 ELSE t
      inserted == updateInsert(cleared, path, startOffset, text)
      moved(anno) ==
        LET after == applyOps(anno, annoOps(anno, startOffset, endOffset,
                                            Len(text), typeover))
        IN IF after = NoAnno THEN Unmarked ELSE after
  IN Done([inserted EXCEPT
             !.annos = [a \in MarkIds |->
                          IF a \in marksOn(t, path) THEN moved(@[a]) ELSE @[a]]],
          path, startOffset + Len(text))

\* Editing.insertText(tx, text) with a node selection, a cursor or a
\* property selection
insertedAt(t, sel, text) ==
  IF isNodeSelection(sel)
    THEN LET nodePos == getContainerPosition(t, sel.node)
             newId == t.uuid + 1
             withText == createTextNode(t, text)
             placed ==
               IF sel.mode = "before" THEN insertAt(withText, nodePos, newId)
               ELSE IF sel.mode = "after"
                 THEN insertAt(withText, nodePos + 1, newId)
               ELSE insertAt(deepDeleteNode(removeAt(withText, nodePos), sel.node),
                             nodePos, newId)
         IN DoneAt(placed, setCursor(placed, newId, "after"))
  ELSE typed(t, sel.path, sel.offset,
             IF "endOffset" \in DOMAIN sel THEN sel.endOffset ELSE sel.offset, text)

\* Editing.insertText(tx, text): a container selection is deleted and the
\* text is inserted at the selection the deletion has set
insertedText(t, sel, text) ==
  IF spansNodes(sel)
    THEN only({IF threw(done) THEN done ELSE insertedAt(done.tx, done.sel, text) :
                 done \in {deleteContainerSelection(t, sel, FALSE)}})
  ELSE insertedAt(t, sel, text)

\* Editing.insertBlockNode(tx, nodeData) with the data of a new figure and a
\* node selection or a property selection in a text node or a figure
insertedBlock(t, sel) ==
  LET blockId == t.uuid + 1
      created == txCreate(t, [type |-> "figure", content |-> <<>>, items |-> <<>>])
      after == NodeSelection(blockId, "after")
  IN IF isNodeSelection(sel)
       THEN
         LET nodePos == getContainerPosition(t, sel.node)
         IN IF sel.mode = "before"
              THEN DoneAt(insertAt(created, nodePos, blockId), sel)
            ELSE IF sel.mode = "after"
              THEN DoneAt(insertAt(created, nodePos + 1, blockId), after)
            ELSE DoneAt(insertAt(deepDeleteNode(removeAt(created, nodePos), sel.node),
                                 nodePos, blockId),
                        after)
     ELSE IF ~sel.containerPath
       THEN Thrown(created, kept(sel),
                   "insertBlockNode can only be used within a container.")
     ELSE
       LET collapsed == IF sel.offset # sel.endOffset
                          THEN deleteTextRange(created, sel.path, sel.offset,
                                               sel.endOffset)
                          ELSE created
           nodeId == sel.path
           nodePos == getContainerPosition(t, nodeId)
           text == collapsed.nodes[nodeId].content
       IN IF ~isText(t.nodes[nodeId]) THEN Unhandled(collapsed, kept(sel))
          ELSE IF text = <<>>
            THEN LET replaced == insertAt(deepDeleteNode(removeAt(collapsed, nodePos),
                                                         nodeId),
                                          nodePos, blockId)
                 IN DoneAt(replaced, setCursor(replaced, blockId, "after"))
          ELSE IF sel.offset = 0
            THEN DoneAt(insertAt(collapsed, nodePos, blockId), kept(sel))
          ELSE IF sel.offset = Len(text)
            THEN LET inserted == insertAt(collapsed, nodePos + 1, blockId)
                 IN DoneAt(inserted, setCursor(inserted, blockId, "before"))
          ELSE LET inserted == insertAt(breakNode(collapsed, nodeId, sel).tx,
                                        nodePos + 1, blockId)
               IN DoneAt(inserted, setCursor(inserted, blockId, "after"))

\* Editing.switchTextType with the new node appended to the container
switchedTextType_atEnd(t, sel, type) ==
  IF isNodeSelection(sel) \/ spansNodes(sel)
    THEN Thrown(t, sel, "Selection must be a PropertySelection.")
  ELSE IF ~sel.containerPath
    THEN Thrown(t, kept(sel), "Selection must be within a container.")
  ELSE IF ~isText(t.nodes[sel.path])
    THEN Thrown(t, kept(sel), "Trying to use switchTextType on a non text node.")
  ELSE
    LET nodeId == sel.path
        newId == t.uuid + 1
        created == txCreate(t, [t.nodes[nodeId] EXCEPT !.type = type])
        transferred == transferAnnotations(created, nodeId, 0, newId, 0)
        pos == getContainerPosition(t, nodeId)
        removed == deepDeleteNode(removeAt(transferred, pos), nodeId)
    IN DoneAt(insertAt(removed, Len(removed.body), newId),
              [sel EXCEPT !.path = newId])

\* Editing.switchTextType(tx, data)
switchedTextType(t, sel, type) ==
  IF isNodeSelection(sel) \/ spansNodes(sel)
    THEN Thrown(t, sel, "Selection must be a PropertySelection.")
  ELSE IF ~sel.containerPath
    THEN Thrown(t, kept(sel), "Selection must be within a container.")
  ELSE IF ~isText(t.nodes[sel.path])
    THEN Thrown(t, kept(sel), "Trying to use switchTextType on a non text node.")
  ELSE
    LET nodeId == sel.path
        newId == t.uuid + 1
        created == txCreate(t, [t.nodes[nodeId] EXCEPT !.type = type])
        transferred == transferAnnotations(created, nodeId, 0, newId, 0)
        pos == getContainerPosition(t, nodeId)
    IN DoneAt(insertAt(deepDeleteNode(removeAt(transferred, pos), nodeId), pos, newId),
              [sel EXCEPT !.path = newId])

\* Editing._merge(tx, root, coor, direction, containerPath) in a document of the
\* fixtures, as delete and _deleteContainerSelection call it: the coordinate
\* is the boundary of its text that the direction points to
mergeAtBoundary ==
  \E sel \in propertySelections(tx), direction \in Directions :
    LET done == merge(begin(tx), getContainerRoot(tx, sel.path), sel, direction)
    IN /\ lastVerb = NoVerb
       /\ sel.containerPath
       /\ sel.offset = sel.endOffset
       /\ sel.offset = IF direction = "left" THEN 0
                       ELSE Len(tx.nodes[sel.path].content)
       /\ tx' = done.tx
       /\ txSelection' = done.sel
       /\ lastVerb' = [name |-> "merge", sel |-> sel, direction |-> direction,
                       before |-> begin(tx), threw |-> threw(done)]

\* tx.setSelection: the node selections in the container
nodeSelections(t) ==
  {NodeSelection(id, mode) : id \in Range(t.body), mode \in {"before", "after", "full"}}

\* the coordinates in the text nodes of the container
textCoordinates(t) ==
  {coor \in [path : Range(t.body), offset : 0..MaxText] :
     /\ isText(t.nodes[coor.path])
     /\ coor.offset <= Len(t.nodes[coor.path].content)}

\* tx.setSelection: the container selections that start and end in a text
\* node of the container
containerSelections(t) ==
  {sel \in [start : textCoordinates(t), end : textCoordinates(t)] :
     \/ getContainerPosition(t, sel.start.path) < getContainerPosition(t, sel.end.path)
     \/ sel.start.path = sel.end.path /\ sel.start.offset < sel.end.offset}

\* the property selections in the nodes of the container itself
nodeProperties(t) == {sel \in propertySelections(t) : sel.path \in Range(t.body)}

\* what a verb leaves behind: its name, the selection it was called with, the
\* document it was called on, and how it ended
verbRecord(name, sel, t, done) ==
  [name |-> name, sel |-> sel, before |-> t,
   threw |-> threw(done), unhandled |-> unhandled(done)]

\* a transaction that sets a selection in a document of the fixtures and
\* calls Editing.break
breakSelection ==
  \E sel \in propertySelections(tx) \cup nodeSelections(tx) \cup containerSelections(tx),
     noNext \in NoNextNode :
    LET done == broken(begin(tx), sel, noNext)
    IN /\ lastVerb = NoVerb
       /\ done.tx.uuid \in EditNodeIds
       /\ tx' = done.tx
       /\ txSelection' = done.sel
       /\ lastVerb' = verbRecord("break", sel, begin(tx), done)

\* a transaction that sets a selection in a document of the fixtures and
\* calls Editing.toggleList
toggleListSelection ==
  \E sel \in propertySelections(tx) \cup containerSelections(tx) :
    LET done == toggled(begin(tx), sel)
    IN /\ lastVerb = NoVerb
       /\ done.tx.uuid \in EditNodeIds
       /\ tx' = done.tx
       /\ txSelection' = done.sel
       /\ lastVerb' = verbRecord("toggleList", sel, begin(tx), done)

\* a transaction that sets a selection in a document of the fixtures and
\* calls Editing.insertBlockNode with the data of a figure
insertBlockNode ==
  \E sel \in nodeProperties(tx) \cup nodeSelections(tx) :
    LET done == insertedBlock(begin(tx), sel)
    IN /\ lastVerb = NoVerb
       /\ done.tx.uuid \in EditNodeIds
       /\ tx' = done.tx
       /\ txSelection' = done.sel
       /\ lastVerb' = verbRecord("insertBlockNode", sel, begin(tx), done)

\* a transaction that sets a selection in a document of the fixtures and
\* calls Editing.switchTextType
switchTextType ==
  \E sel \in nodeProperties(tx) \cup nodeSelections(tx) \cup containerSelections(tx),
     type \in TextTypes :
    LET done == switchedTextType(begin(tx), sel, type)
    IN /\ lastVerb = NoVerb
       /\ done.tx.uuid \in EditNodeIds
       /\ tx' = done.tx
       /\ txSelection' = done.sel
       /\ lastVerb' = verbRecord("switchTextType", sel, begin(tx), done)
                        @@ [type |-> type]

\* a transaction that sets a node selection or a container selection in a
\* document of the fixtures and calls Editing.delete
deleteSelection ==
  /\ lastVerb = NoVerb
  /\ \E sel \in nodeSelections(tx) \cup containerSelections(tx),
        direction \in Directions :
    LET done == deletedSelection(begin(tx), sel, direction)
    IN /\ done.tx.uuid \in EditNodeIds
       /\ tx' = done.tx
       /\ txSelection' = done.sel
       /\ lastVerb' = verbRecord("deleteSelection", sel, begin(tx), done)
                        @@ [direction |-> direction]

\* a transaction that sets a node selection or a container selection in a
\* document of the fixtures and calls Editing.insertText
insertTextSelection ==
  /\ lastVerb = NoVerb
  /\ \E sel \in nodeSelections(tx) \cup containerSelections(tx), L \in 1..MaxInsert :
    LET done == insertedText(begin(tx), sel, Repeat(TypedChar, L))
    IN /\ done.tx.uuid \in EditNodeIds
       /\ tx' = done.tx
       /\ txSelection' = done.sel
       /\ lastVerb' = verbRecord("insertText", sel, begin(tx), done) @@ [L |-> L]

\* Editing.delete(tx, 'left') in the transaction of a break that has returned,
\* at the cursor or the node selection the break has set
deleteAfterBreak ==
  /\ lastVerb # NoVerb
  /\ lastVerb.name = "break"
  /\ ~lastVerb.threw
  /\ isNodeSelection(txSelection) => txSelection.node # NoNodeId
  /\ LET containerPath == IF "containerPath" \in DOMAIN lastVerb.sel
                            THEN lastVerb.sel.containerPath ELSE TRUE
         done == IF isNodeSelection(txSelection)
                   THEN deletedNode(tx, txSelection, "left")
                   ELSE deleted(tx, [path |-> txSelection.path,
                                     offset |-> txSelection.offset,
                                     endOffset |-> txSelection.offset,
                                     containerPath |-> containerPath], "left")
     IN /\ done.tx.uuid \in EditNodeIds
        /\ tx' = done.tx
        /\ txSelection' = done.sel
        /\ lastVerb' = [lastVerb EXCEPT !.name = "breakDelete",
                                        !.threw = threw(done),
                                        !.unhandled = unhandled(done)]

\* a node of a fixture: a paragraph, a figure, or a list of size items
FixtureNodes ==
  [type : {"paragraph", "figure"}, size : {0}] \cup
  [type : {"list"}, size : 1..MaxMerged]

\* the ids a node of a fixture takes: its own and those of its items
span(s) == 1 + s.size

\* the id of the i-th node of the container of a fixture
RECURSIVE firstId(_, _)
firstId(shape, i) ==
  IF i = 1 THEN 1 ELSE firstId(shape, i - 1) + span(shape[i - 1])

\* the last id of a fixture
lastId(shape) == firstId(shape, Len(shape)) + span(shape[Len(shape)]) - 1

\* the text a node of a fixture starts with: no two nodes share a character
fixtureText(id) == [k \in 1..MaxText |-> 10 * id + k]

\* a document whose container holds the nodes of the shape: every text node,
\* figure and list item has a text of MaxText characters, but for the node
\* empty, whose text is empty
containerFixture(shape, empty, anno) ==
  LET owner(id) ==
        CHOOSE i \in DOMAIN shape :
          firstId(shape, i) <= id /\ id < firstId(shape, i) + span(shape[i])
      textOf(id) == IF id = empty THEN <<>> ELSE fixtureText(id)
      node(id) ==
        IF id # firstId(shape, owner(id))
          THEN [type |-> "list-item", content |-> textOf(id), items |-> <<>>]
        ELSE IF shape[owner(id)].type = "list"
          THEN [type |-> "list", content |-> <<>>,
                items |-> [k \in 1..shape[owner(id)].size |-> id + k]]
        ELSE [type |-> shape[owner(id)].type, content |-> textOf(id),
              items |-> <<>>]
  IN [nodes |-> [id \in EditNodeIds |->
                   IF id <= lastId(shape) THEN node(id) ELSE Absent],
      body |-> [i \in DOMAIN shape |-> firstId(shape, i)],
      annos |-> [a \in MarkIds |-> IF a = 1 THEN anno ELSE Unmarked],
      uuid |-> lastId(shape),
      first |-> lastId(shape),
      markUuid |-> 1,
      ops |-> <<>>]

\* the shapes of the fixtures: up to MaxMerged nodes, and room for the nodes
\* the verbs create
FixtureShapes ==
  {shape \in UNION {[1..n -> FixtureNodes] : n \in 1..MaxMerged} :
     lastId(shape) + MaxCreated \in EditNodeIds}

\* a container of text nodes, figures and lists, with or without an empty
\* text, with or without an annotation on one of the other texts
MergeInit ==
  /\ \E shape \in FixtureShapes :
       \E empty \in 0..lastId(shape), id \in 1..lastId(shape) :
         \E anno \in fixtureAnnos(id, MaxText) :
           /\ tx = containerFixture(shape, empty, anno)
           /\ empty = 0 \/ empty \in addressable(tx)
           /\ \/ anno = Unmarked
              \/ /\ anno.start < anno.end
                 /\ anno.end = MaxText
                 /\ id \in addressable(tx)
                 /\ id # empty
           /\ txSelection = setCursor(tx, tx.body[1], "before")
  /\ lastVerb = NoVerb


\* ================================================================ Component
\* if (this.__isRendering__) throw new Error('Component is rendering already.')
rejected_never(flag) == FALSE

rejected(flag) == flag

\* finally { delete this.__isRendering__ }: the flag after the rendering engine
\* has returned or thrown
afterRender_keptOnThrow(outcome) == outcome = "throw"

afterRender(outcome) == FALSE

\* Component._render is called, by the owner of the component or by code the
\* rendering engine runs while it renders the component
render ==
  /\ Len(renderLog) < MaxRenders
  /\ IF rejected(isRendering)
       THEN /\ renderLog' = Append(renderLog, "Component is rendering already.")
            /\ UNCHANGED <<isRendering, running>>
       ELSE /\ isRendering' = TRUE
            /\ running' = running + 1
            /\ renderLog' = Append(renderLog, "render")

\* this.renderingEngine._render(this, oldProps, oldState) returns
engineReturns ==
  /\ running > 0
  /\ running' = running - 1
  /\ isRendering' = afterRender("return")
  /\ renderLog' = Append(renderLog, "return")

\* this.renderingEngine._render(this, oldProps, oldState) throws
engineThrows ==
  /\ running > 0
  /\ running' = running - 1
  /\ isRendering' = afterRender("throw")
  /\ renderLog' = Append(renderLog, "throw")

RenderInit ==
  /\ isRendering = FALSE
  /\ running = 0
  /\ renderLog = <<>>


\* ======================================================== AnnotationCommand
\* the annotations of the command: strong annotations on the text of p1
CommandAnnotations ==
  {anno \in Annotations :
     anno.type = "strong" /\ anno.start.path = <<"p1", "content">> /\
     anno.start.offset < anno.end.offset}

\* the selections of the editor: property selections on the text of p1, a
\* container selection and the null selection
NullSelection == [type |-> "null"]

CommandSelections ==
  {sel \in PropertySelections : sel.start.path = <<"p1", "content">>}
  \cup {[type |-> "container", start |-> Coordinate("p1", 0),
         end |-> Coordinate("p2", 0)]}
  \cup {NullSelection}

NoExecute == [method |-> "none"]

\* sel.isCollapsed()
selIsCollapsed(sel) == sel.start = sel.end

\* sel.isInsideOf(other)
isInsideOf(sel, other) ==
  isBefore(other.start, sel.start, FALSE) /\ isBefore(sel.end, other.end, FALSE)

\* sel.contains(other)
contains(sel, other) == isInsideOf(other, sel)

\* sel.isLeftAlignedWith(other)
isLeftAlignedWith(sel, other) == sel.start = other.start

\* sel.isRightAlignedWith(other)
isRightAlignedWith(sel, other) == sel.end = other.end

\* selectionState.annosByType.get(type): the ids of the annotations of the
\* type that the selection touches, in the order of their ids
annosForSelection(as, sel) ==
  LET touches(id) ==
        /\ as[id] # NoAnno
        /\ as[id].type = "strong"
        /\ as[id].start.path = sel.start.path
        /\ as[id].start.offset <= sel.end.offset
        /\ sel.start.offset <= as[id].end.offset
  IN IF sel.type # "property" THEN <<>>
     ELSE (IF touches("a1") THEN <<"a1">> ELSE <<>>) \o
          (IF touches("a2") THEN <<"a2">> ELSE <<>>)

\* AnnotationCommand.isDisabled
isDisabled(sel, isBlurred) ==
  isBlurred \/ sel.type = "null" \/ sel.type = "container"

\* AnnotationCommand.canCreate
canCreate(as, touched, sel) ==
  /\ ~selIsCollapsed(sel)
  /\ \A i \in DOMAIN touched : ~overlaps(sel, getSelection(as[touched[i]]))

\* AnnotationCommand.canFuse
canFuse(as, touched, sel) == Len(touched) >= 2 /\ ~selIsCollapsed(sel)

\* AnnotationCommand.canDelete
canDelete(as, touched, sel) ==
  Len(touched) = 1 /\ isInsideOf(sel, getSelection(as[touched[1]]))

\* AnnotationCommand.canExpand
canExpand(as, touched, sel) ==
  /\ Len(touched) = 1
  /\ overlaps(sel, getSelection(as[touched[1]]))
  /\ ~isInsideOf(sel, getSelection(as[touched[1]]))

\* AnnotationCommand.canTruncate
canTruncate(as, touched, sel) ==
  /\ Len(touched) = 1
  /\ \/ isLeftAlignedWith(sel, getSelection(as[touched[1]]))
     \/ isRightAlignedWith(sel, getSelection(as[touched[1]]))
  /\ ~contains(sel, getSelection(as[touched[1]]))
  /\ ~selIsCollapsed(sel)

CommandModes == {"create", "fuse", "truncate", "expand", "delete"}

\* the guard _checkPrecondition is called with by the execute method of a mode
checker(mode, as, touched, sel) ==
  CASE mode = "create" -> canCreate(as, touched, sel)
    [] mode = "fuse" -> canFuse(as, touched, sel)
    [] mode = "truncate" -> canTruncate(as, touched, sel)
    [] mode = "expand" -> canExpand(as, touched, sel)
    [] mode = "delete" -> canDelete(as, touched, sel)

\* AnnotationCommand.getCommandState
getCommandState_fuseFirst(as, sel, isBlurred) ==
  IF isDisabled(sel, isBlurred) THEN [disabled |-> TRUE]
  ELSE
    LET touched == annosForSelection(as, sel)
    IN IF canFuse(as, touched, sel)
         THEN [disabled |-> FALSE, active |-> FALSE, mode |-> "fuse"]
       ELSE IF canCreate(as, touched, sel)
         THEN [disabled |-> FALSE, active |-> FALSE, mode |-> "create"]
       ELSE IF canTruncate(as, touched, sel)
         THEN [disabled |-> FALSE, active |-> TRUE, mode |-> "truncate"]
       ELSE IF canExpand(as, touched, sel)
         THEN [disabled |-> FALSE, active |-> FALSE, mode |-> "expand"]
       ELSE IF canDelete(as, touched, sel)
         THEN [disabled |-> FALSE, active |-> TRUE, mode |-> "delete"]
       ELSE [disabled |-> TRUE, active |-> FALSE, mode |-> "null"]

getCommandState(as, sel, isBlurred) ==
  IF isDisabled(sel, isBlurred) THEN [disabled |-> TRUE]
  ELSE
    LET touched == annosForSelection(as, sel)
    IN IF canCreate(as, touched, sel)
         THEN [disabled |-> FALSE, active |-> FALSE, mode |-> "create"]
       ELSE IF canFuse(as, touched, sel)
         THEN [disabled |-> FALSE, active |-> FALSE, mode |-> "fuse"]
       ELSE IF canTruncate(as, touched, sel)
         THEN [disabled |-> FALSE, active |-> TRUE, mode |-> "truncate"]
       ELSE IF canExpand(as, touched, sel)
         THEN [disabled |-> FALSE, active |-> FALSE, mode |-> "expand"]
       ELSE IF canDelete(as, touched, sel)
         THEN [disabled |-> FALSE, active |-> TRUE, mode |-> "delete"]
       ELSE [disabled |-> TRUE, active |-> FALSE, mode |-> "null"]

\* the annotations after the transaction of the execute method of a mode
transformed(mode, as, touched, sel) ==
  CASE mode = "create" ->
         LET id == CHOOSE i \in HelperAnnoIds : as[i] = NoAnno
         IN [as EXCEPT ![id] = [type |-> "strong", start |-> sel.start,
                                end |-> sel.end]]
    [] mode = "fuse" -> fused(as, touched)
    [] mode = "truncate" -> [as EXCEPT ![touched[1]] = truncated(@, sel)]
    [] mode = "expand" -> [as EXCEPT ![touched[1]] = expanded(@, sel)]
    [] mode = "delete" -> [as EXCEPT ![touched[1]] = NoAnno]

\* executeCreate, executeFuse, executeTruncate, executeExpand, executeDelete:
\* _checkPrecondition throws before the transaction is opened
executeMode_transformFirst(mode, as, sel) ==
  LET touched == annosForSelection(as, sel)
  IN IF ~checker(mode, as, touched, sel)
       THEN [outcome |-> "threw", transactions |-> 1, annos |-> as]
       ELSE [outcome |-> mode, transactions |-> 1,
             annos |-> transformed(mode, as, touched, sel)]

executeMode(mode, as, sel) ==
  LET touched == annosForSelection(as, sel)
  IN IF ~checker(mode, as, touched, sel)
       THEN [outcome |-> "threw", transactions |-> 0, annos |-> as]
       ELSE [outcome |-> mode, transactions |-> 1,
             annos |-> transformed(mode, as, touched, sel)]

\* the document has room for the annotation executeCreate creates
hasRoom(mode, as) == mode = "create" => \E i \in HelperAnnoIds : as[i] = NoAnno

\* editorSession.setSelection, focus and blur: the command state is computed
\* for the new selection
selectionChanged ==
  \E sel \in CommandSelections, isBlurred \in BOOLEAN :
    /\ cmdSelection' = sel
    /\ blurred' = isBlurred
    /\ commandState' = getCommandState(docAnnos, sel, isBlurred)
    /\ executed' = NoExecute
    /\ UNCHANGED docAnnos

\* AnnotationCommand.execute(params) with the command state of the selection
execute ==
  /\ IF commandState.disabled
       THEN /\ executed' = [method |-> "execute", mode |-> "disabled",
                            outcome |-> "false", transactions |-> 0,
                            sel |-> cmdSelection, before |-> docAnnos]
            /\ UNCHANGED docAnnos
       ELSE /\ hasRoom(commandState.mode, docAnnos)
            /\ LET done == executeMode(commandState.mode, docAnnos, cmdSelection)
               IN /\ docAnnos' = done.annos
                  /\ executed' = [method |-> "execute", mode |-> commandState.mode,
                                  outcome |-> done.outcome,
                                  transactions |-> done.transactions,
                                  sel |-> cmdSelection, before |-> docAnnos]
  /\ UNCHANGED <<cmdSelection, blurred, commandState>>

\* a direct call of executeCreate, executeFuse, executeTruncate, executeExpand
\* or executeDelete with a property selection
executeDirectly ==
  \E mode \in CommandModes :
    /\ cmdSelection.type = "property"
    /\ hasRoom(mode, docAnnos)
    /\ LET done == executeMode(mode, docAnnos, cmdSelection)
       IN /\ docAnnos' = done.annos
          /\ executed' = [method |-> "direct", mode |-> mode,
                          outcome |-> done.outcome,
                          transactions |-> done.transactions,
                          sel |-> cmdSelection, before |-> docAnnos]
    /\ UNCHANGED <<cmdSelection, blurred, commandState>>

\* the editor starts blurred, without a selection
CommandIdle ==
  /\ cmdSelection = NullSelection
  /\ blurred = TRUE
  /\ commandState = [disabled |-> TRUE]
  /\ executed = NoExecute

\* a document with at most two strong annotations on the text of p1
CommandInit ==
  /\ docAnnos \in [HelperAnnoIds -> CommandAnnotations \cup {NoAnno}]
  /\ helped = NoHelp
  /\ CommandIdle


\* ======================================================= indent and dedent
\* the container holds a list and a paragraph; the items of the list
ItemIds == 1..MaxItems

ListId == MaxItems + 1

ParagraphId == MaxItems + 2

\* 'Note: allowing only 3 levels'
MaxLevel == 3

\* no verb has changed a level yet
NoIndent == [name |-> "none"]

\* tx.selection: a property selection on the text of an item or of the
\* paragraph, a node selection or a container selection
IndentSelections ==
  [type : {"property", "node"}, node : ItemIds \cup {ParagraphId}]
    \cup [type : {"node"}, node : {ListId}] \cup {[type |-> "container"]}

\* getContainerRoot(tx, containerPath, nodeId) in this container
rootOf(nodeId) == IF nodeId \in ItemIds THEN ListId ELSE nodeId

\* item.getLevel()
getLevel(ls, itemId) == ls[itemId]

\* item.setLevel(level): tx.set([item.id, 'level'], level)
setLevel(done, itemId, level) ==
  [levels |-> [done.levels EXCEPT ![itemId] = level],
   ops |-> Append(done.ops, [type |-> "set", path |-> <<itemId, "level">>,
                             value |-> level])]

\* tx.set([node.id, '_itemsChanged'], true)
setItemsChanged(done, listId) ==
  [done EXCEPT !.ops = Append(@, [type |-> "set",
                                  path |-> <<listId, "_itemsChanged">>,
                                  value |-> TRUE])]

\* Editing.indent without the limit of three levels
indented_noLimit(ls, sel) ==
  LET start == [levels |-> ls, ops |-> <<>>]
  IN IF sel.type = "property" /\ rootOf(sel.node) = ListId
       THEN setItemsChanged(setLevel(start, sel.node, getLevel(ls, sel.node) + 1),
                            ListId)
     ELSE start

\* Editing.indent
indented(ls, sel) ==
  LET start == [levels |-> ls, ops |-> <<>>]
  IN IF sel.type = "property" /\ rootOf(sel.node) = ListId
          /\ getLevel(ls, sel.node) < MaxLevel
       THEN setItemsChanged(setLevel(start, sel.node, getLevel(ls, sel.node) + 1),
                            ListId)
     ELSE start

\* Editing.dedent
dedented(ls, sel) ==
  LET start == [levels |-> ls, ops |-> <<>>]
  IN IF sel.type = "property" /\ rootOf(sel.node) = ListId
          /\ getLevel(ls, sel.node) > 1
       THEN setItemsChanged(setLevel(start, sel.node, getLevel(ls, sel.node) - 1),
                            ListId)
     ELSE start

indent ==
  \E sel \in IndentSelections :
    LET done == indented(levels, sel)
    IN /\ levels' = done.levels
       /\ levelOps' = done.ops
       /\ lastIndent' = [name |-> "indent", sel |-> sel, before |-> levels]

dedent ==
  \E sel \in IndentSelections :
    LET done == dedented(levels, sel)
    IN /\ levels' = done.levels
       /\ levelOps' = done.ops
       /\ lastIndent' = [name |-> "dedent", sel |-> sel, before |-> levels]

\* a list whose items are all on the first level
IndentIdle ==
  /\ levels = [i \in ItemIds |-> 1]
  /\ levelOps = <<>>
  /\ lastIndent = NoIndent

\* a list whose items are on any of the three levels
IndentInit ==
  /\ levels \in [ItemIds -> 1..MaxLevel]
  /\ levelOps = <<>>
  /\ lastIndent = NoIndent


\* ========================================== _transferWithDisambiguatedIds
\* the ids of the source document: 'a' a parent with CHILDREN, 'p' a parent
\* with an optional CHILD, two text nodes and two annotations
SourceIds == {"a", "p", "t1", "t2", "anno1", "anno2"}

\* the annotations in the order the annotation index returns them
SourceAnnoIds == <<"anno1", "anno2">>

\* uuid(node.type): ids that no document holds, in the order they are handed out
FreshIds == <<"new1", "new2", "new3", "new4", "new5", "new6">>

TransferIds == SourceIds \cup Range(FreshIds)

sourceType(id) ==
  CASE id = "a" -> "parent-with-children"
    [] id = "p" -> "parent"
    [] id \in {"t1", "t2"} -> "some-text"
    [] id \in Range(SourceAnnoIds) -> "some-anno"

isTextProperty(type) == type = "some-text"

\* node.toJSON(): the owned property foo, and the ids start.path[0] and
\* end.path[0] of an annotation
SourceNode(id, foo, startPath, endPath) ==
  [id |-> id, type |-> sourceType(id), foo |-> foo,
   startPath |-> startPath, endPath |-> endPath]

\* a node the target document holds before the transfer
TargetNode(id) ==
  [id |-> id, type |-> "target-node", foo |-> Null, startPath |-> Null,
   endPath |-> Null]

NoError == "none"

NoTransfer == [id |-> Null]

\* the mappedTypes of a caller: none, or text nodes become paragraphs
MappedTypes == {<<>>, [type \in {"some-text"} |-> "paragraph"]}

\* doc.contains(id)
has(doc, id) == id \in DOMAIN doc /\ doc[id] # NoNode

\* the result of a call: the documents and the visited ids it leaves, and the
\* value it returns
Returned(st, result) == [st |-> st, result |-> result]

\* annotationIndex.get([oldId, prop.name]): the annotations that start on the
\* text of the node
annosOn(doc, id) ==
  SelectSeq(SourceAnnoIds, LAMBDA a : doc[a] # NoNode /\ doc[a].startPath = id)

\* the loop over _annos: with a newId the paths of the annotations of the
\* source document are set to it
renamePaths(doc, collected, oldId, newId) ==
  [n \in SourceIds |->
     IF n \in Range(collected)
       THEN [doc[n] EXCEPT
               !.startPath = IF @ = oldId THEN newId ELSE @,
               !.endPath = IF @ = oldId THEN newId ELSE @]
     ELSE doc[n]]

\* targetDoc.create(nodeData)
createIn(st, nodeData, oldId) ==
  [st EXCEPT !.target[nodeData.id] = nodeData,
             !.created = Append(@, [id |-> nodeData.id, from |-> oldId])]

RECURSIVE transferNode(_, _, _)
RECURSIVE transferRefs(_, _, _, _)
RECURSIVE transferAnnos(_, _, _, _)

\* _transferArrayOfReferences: result is arr.slice(0), and the entries from
\* i on that have not been visited are replaced by the ids they are
\* transferred to
transferRefs(st, result, i, mappedTypes) ==
  IF i > Len(result) \/ st.error # NoError THEN Returned(st, result)
  ELSE IF result[i] = Null \/ result[i] \in st.visited
    THEN transferRefs(st, result, i + 1, mappedTypes)
  ELSE only({transferRefs(child.st, [result EXCEPT ![i] = child.result], i + 1,
                          mappedTypes) :
               child \in {transferNode(st, result[i], mappedTypes)}})

\* the loop over annos after targetDoc.create
transferAnnos(st, collected, i, mappedTypes) ==
  IF i > Len(collected) \/ st.error # NoError THEN st
  ELSE only({transferAnnos(anno.st, collected, i + 1, mappedTypes) :
               anno \in {transferNode(st, collected[i], mappedTypes)}})

\* the branch of the loop over the schema for an owned reference: the value
\* nodeData[name] has afterwards
owned(st, node, mappedTypes) ==
  IF isChildrenProperty(node.type)
    THEN transferRefs(st, node.foo, 1, mappedTypes)
  ELSE IF isChildProperty(node.type) /\ node.foo \notin st.visited
    THEN transferNode(st, node.foo, mappedTypes)
  ELSE Returned(st, node.foo)

\* _transferWithDisambiguatedIds(sourceDoc, targetDoc, id, visited, mappedTypes)
transferNode(st, id, mappedTypes) ==
  IF st.error # NoError THEN Returned(st, Null)
  ELSE IF id \in st.visited
    THEN Returned([st EXCEPT !.error = "dont call me twice"], Null)
  ELSE IF ~has(st.source, id)
    THEN Returned([st EXCEPT !.visited = @ \cup {id}, !.error = "NotFoundError"],
                  Null)
  ELSE
    LET node == st.source[id]
        renamed == has(st.target, id)
        newId == IF renamed THEN FreshIds[st.count + 1] ELSE id
        entered == [st EXCEPT !.visited = @ \cup {id},
                              !.count = IF renamed THEN @ + 1 ELSE @]
        collected ==
          IF isTextProperty(node.type) THEN annosOn(st.source, id) ELSE <<>>
        type == IF node.type \in DOMAIN mappedTypes THEN mappedTypes[node.type]
                ELSE node.type
        finish(refs) ==
          IF refs.st.error # NoError THEN Returned(refs.st, Null)
          ELSE LET nodeData == [node EXCEPT !.id = newId, !.foo = refs.result,
                                            !.type = type]
                   rewritten == [refs.st EXCEPT !.source =
                                   IF renamed
                                     THEN renamePaths(@, collected, id, newId)
                                     ELSE @]
               IN only({Returned(after, IF after.error = NoError THEN newId ELSE Null) :
                        after \in {transferAnnos(createIn(rewritten, nodeData, id),
                                                 collected, 1, mappedTypes)}})
    IN only({finish(refs) : refs \in {owned(entered, node, mappedTypes)}})

\* one call with an empty visited
transfer ==
  \E id \in SourceIds, mappedTypes \in MappedTypes :
    LET start == [source |-> sourceDoc, target |-> targetDoc, visited |-> {},
                  created |-> <<>>, count |-> 0, error |-> NoError]
        done == transferNode(start, id, mappedTypes)
    IN /\ lastTransfer = NoTransfer
       /\ has(sourceDoc, id)
       /\ sourceDoc' = done.st.source
       /\ targetDoc' = done.st.target
       /\ lastTransfer' = [id |-> id, mappedTypes |-> mappedTypes,
                          result |-> done.result, error |-> done.st.error,
                          created |-> done.st.created, visited |-> done.st.visited,
                          source |-> sourceDoc, target |-> targetDoc]

\* no documents
TransferIdle ==
  /\ sourceDoc = [id \in SourceIds |-> NoNode]
  /\ targetDoc = [id \in TransferIds |-> NoNode]
  /\ lastTransfer = NoTransfer

\* the sequences without repetition of at most MaxChildren of the ids
childrenOf(ids) ==
  {s \in UNION {[1..n -> ids] : n \in 0..MaxChildren} :
     \A i, j \in DOMAIN s : i # j => s[i] # s[j]}

\* a source document in which every node has at most one owner, with a
\* property annotation and an annotation from t1 to t2; a target document
\* that holds nodes under some of the ids of the source document
TransferInit ==
  \E children \in childrenOf({"p", "t1", "t2"}),
     child \in {Null, "t1", "t2"},
     path \in {Null, "t1", "t2"},
     spans \in BOOLEAN,
     taken \in SUBSET SourceIds :
    /\ child \notin Range(children)
    /\ sourceDoc =
         [id \in SourceIds |->
            CASE id = "a" -> SourceNode(id, children, Null, Null)
              [] id = "p" -> SourceNode(id, child, Null, Null)
              [] id \in {"t1", "t2"} -> SourceNode(id, Null, Null, Null)
              [] id = "anno1" ->
                   IF path = Null THEN NoNode ELSE SourceNode(id, Null, path, path)
              [] id = "anno2" ->
                   IF spans THEN SourceNode(id, Null, "t1", "t2") ELSE NoNode]
    /\ targetDoc =
         [id \in TransferIds |-> IF id \in taken THEN TargetNode(id) ELSE NoNode]
    /\ lastTransfer = NoTransfer

\* the parts that were added last, while another part runs
MoreIdle == IndentIdle /\ TransferIdle

\* ========================================================== specifications
\* the text property while the document is edited
TextIdle ==
  /\ content = <<>>
  /\ annos = [id \in AnnoIds |-> NoAnno]
  /\ selection = [startOffset |-> 0, endOffset |-> 0]
  /\ edit = NoEdit

\* the variables the text property does not touch
othersText == <<varsDoc, varsIndex, varsHelpers, varsSession, varsEdit, varsRender,
  varsCommand, varsMore>>
InitText == TextInit /\ DocInit /\ IndexInit /\ HelpersIdle /\ SessionInit /\ EditIdle /\ RenderInit
  /\ CommandIdle /\ MoreIdle
NextText ==
  \/ insertText /\ UNCHANGED othersText
  \/ setSelection /\ UNCHANGED othersText
  \/ annotate /\ UNCHANGED othersText
  \/ insertInlineNode /\ UNCHANGED othersText
SpecText == InitText /\ [][NextText]_vars


\* a text with an annotation of any class and any range a <= b, also one that
\* reaches beyond the text
LoopInit ==
  /\ content \in {[i \in 1..n |-> i] : n \in 0..MaxLen}
  /\ annos \in [AnnoIds -> {NoAnno} \cup
                  {anno \in [type : AnnoTypes, start : Offsets, end : Offsets] :
                     anno.start <= anno.end}]
  /\ selection \in ValidSel(content)
  /\ edit = NoEdit

\* _insertText on any annotation range
InitLoop ==
  LoopInit /\ DocInit /\ IndexInit /\ HelpersIdle /\ SessionInit /\ EditIdle /\ RenderInit
  /\ CommandIdle /\ MoreIdle
NextLoop ==
  \/ insertText /\ UNCHANGED othersText
  \/ setSelection /\ UNCHANGED othersText
SpecLoop == InitLoop /\ [][NextLoop]_vars

othersDoc == <<varsText, varsIndex, varsHelpers, varsSession, varsEdit, varsRender,
  varsCommand, varsMore>>
InitDoc == DocInit /\ TextIdle /\ IndexInit /\ HelpersIdle /\ SessionInit /\ EditIdle /\ RenderInit
  /\ CommandIdle /\ MoreIdle
NextDoc ==
  \/ create /\ UNCHANGED othersDoc
  \/ setOwned /\ UNCHANGED othersDoc
  \/ insertChild /\ UNCHANGED othersDoc
  \/ removeChild /\ UNCHANGED othersDoc
  \/ setAnnotationPath /\ UNCHANGED othersDoc
SpecDoc == InitDoc /\ [][NextDoc]_vars

othersIndex == <<varsText, varsDoc, varsHelpers, varsSession, varsEdit, varsRender,
  varsCommand, varsMore>>
InitIndex == IndexInit /\ TextIdle /\ DocInit /\ HelpersIdle /\ SessionInit /\ EditIdle /\ RenderInit
  /\ CommandIdle /\ MoreIdle
NextIndex ==
  \/ addIndex /\ UNCHANGED othersIndex
  \/ docCreate /\ UNCHANGED othersIndex
  \/ docDelete /\ UNCHANGED othersIndex
  \/ docSet /\ UNCHANGED othersIndex
  \/ bodyRemove /\ UNCHANGED othersIndex
SpecIndex == InitIndex /\ [][NextIndex]_vars

othersHelpers == <<varsText, varsDoc, varsIndex, varsSession, varsEdit, varsRender,
  varsCommand, varsMore>>
InitHelpers == HelpersInit /\ TextIdle /\ DocInit /\ IndexInit /\ SessionInit /\ EditIdle /\ RenderInit
  /\ CommandIdle /\ MoreIdle
NextHelpers ==
  \/ truncateAnnotation /\ UNCHANGED othersHelpers
  \/ expandAnnotation /\ UNCHANGED othersHelpers
SpecHelpers == InitHelpers /\ [][NextHelpers]_vars

InitFuse == FuseInit /\ TextIdle /\ DocInit /\ IndexInit /\ SessionInit /\ EditIdle /\ RenderInit
  /\ CommandIdle /\ MoreIdle
NextFuse ==
  \/ createAnnotation /\ UNCHANGED othersHelpers
  \/ fuseAnnotation /\ UNCHANGED othersHelpers
SpecFuse == InitFuse /\ [][NextFuse]_vars

NextRange ==
  \/ updateRangeCall /\ UNCHANGED othersHelpers
SpecRange == InitHelpers /\ [][NextRange]_vars

othersSession == <<varsText, varsDoc, varsIndex, varsHelpers, varsEdit, varsRender,
  varsCommand, varsMore>>
InitSession == SessionInit /\ TextIdle /\ DocInit /\ IndexInit /\ HelpersIdle /\ EditIdle /\ RenderInit
  /\ CommandIdle /\ MoreIdle
NextSession ==
  \/ commitChange /\ UNCHANGED othersSession
  \/ commitMissingChange /\ UNCHANGED othersSession
  \/ updateNodeStates /\ UNCHANGED othersSession
  \/ directChange /\ UNCHANGED othersSession
  \/ step /\ UNCHANGED othersSession
  \/ dispose /\ UNCHANGED othersSession
SpecSession == InitSession /\ [][NextSession]_vars

othersEdit == <<varsText, varsDoc, varsIndex, varsHelpers, varsSession, varsRender,
  varsCommand, varsMore>>
InitEdit ==
  EditInit /\ TextIdle /\ DocInit /\ IndexInit /\ HelpersIdle /\ SessionInit /\ RenderInit
  /\ CommandIdle /\ MoreIdle
NextEdit ==
  \/ break /\ UNCHANGED othersEdit
  \/ toggleList /\ UNCHANGED othersEdit
SpecEdit == InitEdit /\ [][NextEdit]_vars

othersRender ==
  <<varsText, varsDoc, varsIndex, varsHelpers, varsSession, varsEdit, varsCommand, varsMore>>
InitRender ==
  RenderInit /\ TextIdle /\ DocInit /\ IndexInit /\ HelpersIdle /\ SessionInit /\ EditIdle
  /\ CommandIdle /\ MoreIdle
NextRender ==
  \/ render /\ UNCHANGED othersRender
  \/ engineReturns /\ UNCHANGED othersRender
  \/ engineThrows /\ UNCHANGED othersRender
SpecRender == InitRender /\ [][NextRender]_vars

InitMerge ==
  MergeInit /\ TextIdle /\ DocInit /\ IndexInit /\ HelpersIdle /\ SessionInit /\ RenderInit
  /\ CommandIdle /\ MoreIdle
NextMerge ==
  \/ delete /\ UNCHANGED othersEdit
  \/ mergeAtBoundary /\ UNCHANGED othersEdit
  \/ breakSelection /\ UNCHANGED othersEdit
  \/ toggleListSelection /\ UNCHANGED othersEdit
  \/ insertBlockNode /\ UNCHANGED othersEdit
  \/ switchTextType /\ UNCHANGED othersEdit
SpecMerge == InitMerge /\ [][NextMerge]_vars

NextRemove ==
  \/ breakSelection /\ UNCHANGED othersEdit
  \/ deleteSelection /\ UNCHANGED othersEdit
  \/ insertTextSelection /\ UNCHANGED othersEdit
SpecRemove == InitMerge /\ [][NextRemove]_vars

NextRoundTrip ==
  \/ breakSelection /\ UNCHANGED othersEdit
  \/ deleteAfterBreak /\ UNCHANGED othersEdit
SpecRoundTrip == InitMerge /\ [][NextRoundTrip]_vars

othersCommand ==
  <<varsText, varsDoc, varsIndex, varsSession, varsEdit, varsRender, helped,
    varsMore>>
InitCommand ==
  CommandInit /\ TextIdle /\ DocInit /\ IndexInit /\ SessionInit /\ EditIdle /\ RenderInit
  /\ MoreIdle
NextCommand ==
  \/ selectionChanged /\ UNCHANGED othersCommand
  \/ execute /\ UNCHANGED othersCommand
  \/ executeDirectly /\ UNCHANGED othersCommand
SpecCommand == InitCommand /\ [][NextCommand]_vars


othersTransfer == <<varsText, varsDoc, varsIndex, varsHelpers, varsSession, varsEdit,
  varsRender, varsCommand, varsIndent>>
InitTransfer ==
  TransferInit /\ TextIdle /\ DocInit /\ IndexInit /\ HelpersIdle /\ SessionInit
  /\ EditIdle /\ RenderInit /\ CommandIdle /\ IndentIdle
NextTransfer ==
  \/ transfer /\ UNCHANGED othersTransfer
SpecTransfer == InitTransfer /\ [][NextTransfer]_vars

othersIndent == <<varsText, varsDoc, varsIndex, varsHelpers, varsSession, varsEdit,
  varsRender, varsCommand, varsTransfer>>
InitIndent ==
  IndentInit /\ TextIdle /\ DocInit /\ IndexInit /\ HelpersIdle /\ SessionInit /\ EditIdle
  /\ RenderInit /\ CommandIdle /\ TransferIdle
NextIndent ==
  \/ indent /\ UNCHANGED othersIndent
  \/ dedent /\ UNCHANGED othersIndent
SpecIndent == InitIndent /\ [][NextIndent]_vars

\* ------------------------------------------------- claims about _insertText
\* the characters an annotation [start, end) covers: text.substring(start, end)
covered(text, start, end) ==
  SubSeq(text, start + 1, IF end <= Len(text) THEN end ELSE Len(text))

Edited == edit # NoEdit
\* the total span + L
totalShift == edit.startOffset - edit.endOffset + edit.L

\* C1: an annotation that starts at or after the end of the edited range has
\* both offsets shifted by startOffset - endOffset + L: it keeps its length and
\* covers the same characters as before.
C1_AnnoAfterIsShifted ==
  Edited =>
    \A id \in AnnoIds :
      LET old == edit.before[id] IN
      (old # NoAnno /\ old.start >= edit.endOffset) =>
        /\ annos[id] # NoAnno
        /\ annos[id].start = old.start + totalShift
        /\ annos[id].end = old.end + totalShift
        /\ annos[id].end - annos[id].start = old.end - old.start
        /\ covered(content, annos[id].start, annos[id].end)
             = covered(edit.textBefore, old.start, old.end)

\* one character inserted at offset 0 moves [1,2) to [2,3)
C1_Witness ==
  /\ Edited
  /\ edit.verb = "insertText"
  /\ edit.startOffset = 0 /\ edit.endOffset = 0 /\ edit.L = 1
  /\ edit.before["anno"] = [type |-> "strong", start |-> 1, end |-> 2]
  /\ annos["anno"] = [type |-> "strong", start |-> 2, end |-> 3]

\* C2: for an annotation that ends before the start of the edited range no
\* operation is issued, and its offsets are unchanged.
C2_AnnoBeforeIsUntouched ==
  Edited =>
    \A id \in AnnoIds :
      LET old == edit.before[id] IN
      (old # NoAnno /\ old.end < edit.startOffset) =>
        /\ edit.ops[id] = <<>>
        /\ annos[id] = old

\* typing over [2,3) with an annotation [0,1)
C2_Witness ==
  /\ Edited
  /\ edit.typeover
  /\ edit.startOffset = 2 /\ edit.endOffset = 3 /\ edit.L = 1
  /\ edit.before["anno"] = [type |-> "strong", start |-> 0, end |-> 1]
  /\ annos["anno"] = edit.before["anno"]

\* C3: during a type-over an annotation is deleted exactly when
\* startOffset <= a and b < endOffset, or when it is an inline node with
\* startOffset <= a and b <= endOffset; every other annotation still exists.
C3_DeletedIffCovered ==
  (Edited /\ edit.typeover) =>
    \A id \in AnnoIds :
      LET old == edit.before[id] IN
      old # NoAnno =>
        ((annos[id] = NoAnno) <=>
           \/ edit.startOffset <= old.start /\ old.end < edit.endOffset
           \/ /\ isInlineNode(old.type)
              /\ edit.startOffset <= old.start /\ old.end <= edit.endOffset)

\* an inline node [1,2) is deleted by typing over exactly [1,2)
C3_Witness ==
  /\ Edited
  /\ edit.startOffset = 1 /\ edit.endOffset = 2
  /\ edit.before["anno"] # NoAnno
  /\ isInlineNode(edit.before["anno"].type)
  /\ edit.before["anno"].start = 1 /\ edit.before["anno"].end = 2
  /\ edit.ops["anno"] = << deleteOp >>
  /\ annos["anno"] = NoAnno

\* C4: during a type-over a surviving annotation with startOffset <= a <
\* endOffset and b >= endOffset has its end shifted by startOffset - endOffset
\* + L and its start moved to startOffset + L, except that a start equal to
\* startOffset stays; the result satisfies start <= end.
C4_StartInsideEndAfter ==
  (Edited /\ edit.typeover) =>
    \A id \in AnnoIds :
      LET old == edit.before[id] IN
      (/\ old # NoAnno
       /\ annos[id] # NoAnno
       /\ edit.startOffset <= old.start /\ old.start < edit.endOffset
       /\ old.end >= edit.endOffset) =>
        /\ annos[id].end = old.end + totalShift
        /\ annos[id].start = IF old.start = edit.startOffset
                               THEN old.start
                               ELSE edit.startOffset + edit.L
        /\ annos[id].start <= annos[id].end

\* typing 1 character over [0,2) moves the start of [1,3) to 1 and its end to 2
C4_Witness ==
  /\ Edited
  /\ edit.startOffset = 0 /\ edit.endOffset = 2 /\ edit.L = 1
  /\ edit.before["anno"] = [type |-> "link", start |-> 1, end |-> 3]
  /\ edit.ops["anno"] = << shiftOp("start", 0), shiftOp("end", -1) >>
  /\ annos["anno"] = [type |-> "link", start |-> 1, end |-> 2]

C6_NoExpandRightIsUntouched ==
  Edited =>
    \A id \in AnnoIds :
      LET old == edit.before[id] IN
      (/\ old # NoAnno
       /\ old.start < old.end
       /\ old.end = edit.startOffset
       /\ ~autoExpandRight(old.type)) =>
        annos[id] = old

\* C7: an annotation with a < startOffset and b >= endOffset that is not in
\* case VI keeps its start and has its end shifted by startOffset - endOffset
\* + L, unless it is an inline node: then neither offset changes.
C7_AnnoAroundEdit ==
  Edited =>
    \A id \in AnnoIds :
      LET old == edit.before[id] IN
      (/\ old # NoAnno
       /\ old.start < edit.startOffset
       /\ old.end >= edit.endOffset
       /\ ~(old.end = edit.startOffset /\ ~autoExpandRight(old.type))) =>
        /\ annos[id] # NoAnno
        /\ annos[id].start = old.start
        /\ annos[id].end = IF isInlineNode(old.type)
                             THEN old.end
                             ELSE old.end + totalShift

\* one character inserted at offset 1 inside [0,2) moves its end to 3
C7_Witness ==
  /\ Edited
  /\ ~edit.typeover
  /\ edit.startOffset = 1 /\ edit.L = 1
  /\ edit.before["anno"] = [type |-> "link", start |-> 0, end |-> 2]
  /\ annos["anno"] = [type |-> "link", start |-> 0, end |-> 3]

\* ------------------------------------------- claims about parents and xpath
\* the node that owns id: the holder of its id in an owned property, for an
\* annotation the node addressed by start.path[0]; Null without one
ownerOf(ns, id) ==
  IF isAnnotation(ns[id].type)
    THEN (IF exists(ns, ns[id].path[1]) THEN ns[id].path[1] ELSE Null)
  ELSE IF holders(ns, id) = {} THEN Null
  ELSE CHOOSE o \in holders(ns, id) : TRUE

\* C8: getParent() of a node B is the node A exactly when A currently holds
\* B's id in an owned CHILD or CHILDREN property, and is null otherwise,
\* whether B was created before or after A.
C8_ParentIsHolder ==
  \A id \in NodeIds :
    (exists(nodes, id) /\ ~isAnnotation(typeOf(id))) =>
      /\ \A owner \in NodeIds :
           (parent[id] = owner) <=> (owner \in holders(nodes, id))
      /\ (parent[id] = Null) <=> (holders(nodes, id) = {})

\* replacing the CHILD 'b' of 'p' by 'c' leaves 'b' without parent
C8_Witness ==
  /\ lastOp.op = "set" /\ lastOp.id = "p"
  /\ lastOp.old = "b" /\ lastOp.value = "c"
  /\ exists(nodes, "b") /\ exists(nodes, "c")
  /\ parent["b"] = Null
  /\ parent["c"] = "p"

\* the xpath entries the structure of the document prescribes for a node
RECURSIVE expectedXpath(_, _)
expectedXpath(ns, id) ==
  LET owner == ownerOf(ns, id)
      entry == [id |-> id, type |-> ns[id].type]
  IN  IF owner = Null THEN << entry >>
      ELSE expectedXpath(ns, owner) \o
             << IF isAnnotation(ns[id].type)
                  THEN entry @@ [property |-> ns[id].path[2]]
                ELSE IF isChildrenProperty(ns[owner].type)
                  THEN entry @@ [property |-> "foo",
                                 pos |-> indexOf(ns[owner].foo, id)]
                ELSE entry @@ [property |-> "foo"] >>

\* C9: getXpath().toArray() of a node is the chain of {id, type} entries from
\* its root ancestor down to itself; a node held in a CHILD property carries
\* property and no pos, a node held in a CHILDREN array carries property and
\* its current index as pos, a node without parent is just [{id, type}].
C9_XpathIsAncestorChain ==
  \A id \in NodeIds :
    exists(nodes, id) => toArray(xpath, id) = expectedXpath(nodes, id)

\* inserting 'c' at index 0 before 'b' changes the pos of 'b' from 0 to 1
C9_Witness ==
  /\ lastOp.op = "insert" /\ lastOp.id = "a"
  /\ lastOp.pos = 0 /\ lastOp.value = "c"
  /\ nodes["a"].foo = <<"c", "b">>
  /\ toArray(xpath, "b") =
       << [id |-> "a", type |-> "parent-with-children"],
          [id |-> "b", type |-> "child", property |-> "foo", pos |-> 1] >>
  /\ toArray(xpath, "c") =
       << [id |-> "a", type |-> "parent-with-children"],
          [id |-> "c", type |-> "child", property |-> "foo", pos |-> 0] >>

CallCount(cs, method, id) ==
  Cardinality({i \in DOMAIN cs : cs[i].method = method /\ cs[i].node = id})

Attached == index # NoIndex

\* the calls made after the warm-up
afterWarmUp ==
  SubSeq(calls, Len(warmUp(index, getNodes(atAttach))) + 1, Len(calls))

\* C11: when an index is attached with addIndex, select is called exactly
\* once for every node that exists at attach time and create exactly once for
\* every such node the index selects (for an index selecting all nodes,
\* create.callCount is the number of nodes), and for no other node.
C11_WarmUpCallsEachNodeOnce ==
  (Attached /\ applied = <<>>) =>
    /\ \A id \in IndexedIds :
         /\ CallCount(calls, "select", id) = (IF id \in atAttach THEN 1 ELSE 0)
         /\ CallCount(calls, "create", id) =
              (IF id \in atAttach /\ select(index, id) THEN 1 ELSE 0)
         /\ CallCount(calls, "delete", id) = 0
         /\ CallCount(calls, "update", id) = 0
    /\ index = "all" => Len(SelectSeq(calls, LAMBDA c : c.method = "create"))
                          = Cardinality(docNodes)

\* TestIndex attached to a document of three nodes: three select, three create
C11_Witness ==
  /\ index = "all"
  /\ applied = <<>>
  /\ atAttach = {"body", "p1", "test"}
  /\ Len(calls) = 6

\* the create and delete callbacks the applied mutations prescribe, in order
expectedCreateDelete ==
  LET ms == SelectSeq(applied, LAMBDA m : /\ m.op \in {"create", "delete"}
                                          /\ select(index, m.node))
  IN  [i \in 1..Len(ms) |-> Call(ms[i].op, ms[i].node)]

\* C12: after warm-up each doc.create of a matching node triggers exactly one
\* index.create with that node, each doc.delete exactly one index.delete with
\* the deleted node, nothing else triggers these callbacks, and the callbacks
\* occur in the order the mutations were applied.
C12_CreateDeleteCallbacksInOrder ==
  Attached =>
    SelectSeq(afterWarmUp, LAMBDA c : c.method \in {"create", "delete"})
      = expectedCreateDelete

\* 'test' is created and then 'p1' deleted under an index of paragraphs
C12_Witness ==
  /\ index = "paragraph"
  /\ Len(applied) = 2
  /\ applied[1].op = "create" /\ applied[1].node = "test"
  /\ applied[2].op = "delete" /\ applied[2].node = "p1"
  /\ SelectSeq(afterWarmUp, LAMBDA c : c.method # "select")
       = << Call("create", "test"), Call("delete", "p1") >>

\* the set and update mutations applied to nodes the index selects
appliedUpdates ==
  SelectSeq(applied, LAMBDA m : /\ m.op \in {"set", "update"}
                                /\ select(index, m.node))

updateCalls == SelectSeq(afterWarmUp, LAMBDA c : c.method = "update")

C14_TruncateMovesOnlyEnd ==
  helped.op = "truncate" =>
    LET id == helped.ids[1]
        old == helped.before[id]
        new == docAnnos[id]
        sel == helped.sel
    IN  (/\ isBefore(old.start, sel.start, TRUE)
         /\ isBefore(sel.start, old.end, TRUE)
         /\ isBefore(old.end, sel.end, FALSE)) =>
          /\ new.start = old.start
          /\ new.end.offset = sel.start.offset
          /\ (isContainerAnnotation(old) /\ isPropertySelection(sel)) =>
               new.end.path = old.end.path
          /\ isContainerSelection(sel) => new.end.path = sel.start.path
          /\ ~isContainerAnnotation(old) => new.end.path = old.start.path

\* the strong annotation [0,2) on p1 truncated with [1,2) becomes [0,1)
C14_Witness ==
  /\ helped.op = "truncate"
  /\ helped.ids = <<"a1">>
  /\ helped.before["a1"] = [type |-> "strong", start |-> Coordinate("p1", 0),
                             end |-> Coordinate("p1", 2)]
  /\ helped.sel = [type |-> "property", start |-> Coordinate("p1", 1),
                    end |-> Coordinate("p1", 2)]
  /\ docAnnos["a1"] = [type |-> "strong", start |-> Coordinate("p1", 0),
                        end |-> Coordinate("p1", 1)]

\* C15: expandAnnotation never shrinks the annotation: afterwards its range
\* contains its previous range and the range of the selection, an endpoint
\* changes only if the selection reaches beyond it, and expanding again with
\* the same selection changes nothing.
C15_ExpandNeverShrinks ==
  helped.op = "expand" =>
    LET id == helped.ids[1]
        old == helped.before[id]
        new == docAnnos[id]
        sel == helped.sel
    IN  /\ isBefore(new.start, old.start, FALSE)
        /\ isBefore(old.end, new.end, FALSE)
        /\ isBefore(new.start, sel.start, FALSE)
        /\ isBefore(sel.end, new.end, FALSE)
        /\ new.start # old.start => isBefore(sel.start, old.start, TRUE)
        /\ new.end # old.end => isBefore(old.end, sel.end, TRUE)
        /\ expanded(new, sel) = new

\* the strong annotation [0,2) on p1 expanded with [1,3) becomes [0,3)
C15_Witness ==
  /\ helped.op = "expand"
  /\ helped.ids = <<"a1">>
  /\ helped.before["a1"] = [type |-> "strong", start |-> Coordinate("p1", 0),
                             end |-> Coordinate("p1", 2)]
  /\ helped.sel = [type |-> "property", start |-> Coordinate("p1", 1),
                    end |-> Coordinate("p1", 3)]
  /\ docAnnos["a1"] = [type |-> "strong", start |-> Coordinate("p1", 0),
                        end |-> Coordinate("p1", 3)]

recordable(changes) ==
  SelectSeq(changes, LAMBDA c : c # NoChange /\ c.ops > 0)

\* C17: the history of a DocumentSession is append-only and ordered: every
\* 'document:changed' notification with a change of at least one op appends
\* that change at the end of the history, a change without ops (the pseudo
\* change of updateNodeStates) is never recorded, and no operation removes,
\* replaces or reorders an entry of the history.
C17_HistoryIsAppendOnly ==
  /\ [](/\ history = recordable(received)
        /\ \A i \in DOMAIN history :
             history[i].ops > 0 /\ history[i].action # "node-state-update")
  /\ [][/\ Len(history') >= Len(history)
        /\ SubSeq(history', 1, Len(history)) = history
        /\ (received' # received /\ current.ops > 0) =>
             history' = Append(history, current)
        /\ (received' # received /\ current.ops = 0) =>
             history' = history]_vars

\* a commit, a node state update and a direct change: the history holds the
\* first and the third
C17_Witness ==
  /\ ~Running
  /\ Len(received) = 3
  /\ received[2].action = "node-state-update"
  /\ history = << received[1], received[3] >>
  /\ received[1].action = "commit"
  /\ received[3].action = "direct"

\* C18: a change committed through _commitChange / _applyChange is first
\* applied to the document, then the change listeners of the document are
\* notified, then the session emits 'change' exactly once; no listener is
\* notified of a change that is not yet applied, and a missing change raises
\* an error before anything is applied or notified.
C18_ApplyThenNotifyThenEmit ==
  /\ [](/\ \A i \in DOMAIN events :
             events[i].change.action = "commit" =>
               /\ events[i].kind = "_notifyChangeListeners" =>
                    \E j \in 1..(i - 1) :
                      events[j] = Event("_apply", events[i].change)
               /\ events[i].kind = "emit" =>
                    \E j \in 1..(i - 1) :
                      events[j] = Event("_notifyChangeListeners", events[i].change)
               /\ \A j \in DOMAIN events : events[j] = events[i] => j = i
        /\ ~Running =>
             \A i \in DOMAIN events :
               (events[i].change.action = "commit" /\ events[i].kind = "_apply") =>
                 \E j \in (i + 1)..Len(events) :
                   events[j] = Event("emit", events[i].change))
  /\ [][errors' # errors => UNCHANGED <<events, received, history, todo>>]_vars

\* one committed change: applied, notified, emitted
C18_Witness ==
  /\ ~Running
  /\ errors = 1
  /\ events = << Event("_apply", Change(2, 1, "commit")),
                 Event("_notifyChangeListeners", Change(2, 1, "commit")),
                 Event("emit", Change(2, 1, "commit")) >>

\* ------------------------------------------------ claims about the container
\* the nodes the container leads to: its nodes and the items of its lists
reachable(t) ==
  Range(t.body) \cup
  UNION {Range(t.nodes[l].items) : l \in Range(t.body) \cap existing(t)}

\* C19: a verb that takes a node out of the container, or an item out of its
\* list, and does not insert it again deletes it with deepDeleteNode, so every
\* text node, list and list item of the document is reachable from the
\* container
C19_EveryNodeIsReachable == existing(tx) \subseteq reachable(tx)

\* the verb that has just completed is a break that split the text of a text
\* node or of a list item at an offset inside the text
splitByBreak ==
  /\ lastVerb.name = "break"
  /\ 0 < lastVerb.sel.offset
  /\ lastVerb.sel.offset < Len(lastVerb.before.nodes[lastVerb.sel.path].content)

\* the sequence that holds the node: the container or the items of its list
siblings(t, id) ==
  IF id \in Range(t.body) THEN t.body ELSE t.nodes[listOf(t, id)].items

\* the op is recorded, and every record of it precedes every record of later
precedes(ops, op, later) ==
  /\ \E i \in DOMAIN ops : ops[i] = op
  /\ \A i, j \in DOMAIN ops : ops[i] = op /\ ops[j] = later => i < j

\* C20: when break splits a text node or a list item at an offset o inside its
\* text, every annotation at or after o is attached to the new node with its
\* offsets reduced by o, every annotation that ends at or before o stays as it
\* was, the text is truncated to [0, o) after the transfer, and the new node
\* holds the text [o, length) and directly follows the original
C20_BreakTransfersAnnotations ==
  splitByBreak =>
    LET old == lastVerb.before
        node == lastVerb.sel.path
        o == lastVerb.sel.offset
        text == old.nodes[node].content
        new == old.uuid + 1
    IN /\ \A a \in marksOn(old, node) :
            /\ old.annos[a].start >= o =>
                 tx.annos[a] = [old.annos[a] EXCEPT !.path = new,
                                                    !.start = @ - o,
                                                    !.end = @ - o]
            /\ old.annos[a].end <= o => tx.annos[a] = old.annos[a]
       /\ tx.nodes[node].content = SubSeq(text, 1, o)
       /\ tx.nodes[new].content = SubSeq(text, o + 1, Len(text))
       /\ precedes(tx.ops, "transferAnnotations", "update")
       /\ new \in Range(siblings(tx, node))
       /\ indexOf(siblings(tx, node), new) = indexOf(siblings(tx, node), node) + 1

\* a list item with an annotation behind the cursor has been split
C20_Witness ==
  /\ splitByBreak
  /\ isListItem(lastVerb.before.nodes[lastVerb.sel.path])
  /\ \E a \in marksOn(lastVerb.before, lastVerb.sel.path) :
       lastVerb.before.annos[a].start >= lastVerb.sel.offset

\* ------------------------------------------------ claims about the Component
\* the renders in progress after the first i entries of the log
inProgress(i) ==
  Cardinality({j \in 1..i : renderLog[j] = "render"}) -
  Cardinality({j \in 1..i : renderLog[j] \in {"return", "throw"}})

\* C27: a component has at most one render in progress: a call of _render
\* during a render fails with 'Component is rendering already.' and starts no
\* render, and the flag is cleared when the render ends, by return or by
\* exception, so that the next call renders
C27_OneRenderAtATime ==
  /\ running <= 1
  /\ isRendering <=> running = 1
  /\ \A i \in DOMAIN renderLog :
       /\ renderLog[i] = "render" => inProgress(i - 1) = 0
       /\ renderLog[i] = "Component is rendering already." => inProgress(i - 1) = 1

\* a call was rejected during a render, the render failed, and the next call
\* rendered
C27_Witness ==
  \E i \in DOMAIN renderLog :
    /\ i + 2 <= Len(renderLog)
    /\ renderLog[i] = "Component is rendering already."
    /\ renderLog[i + 1] = "throw"
    /\ renderLog[i + 2] = "render"

\* ------------------------------------------- Part 8: AnnotationCommand
\* the modes in the order getCommandState tries them
ModePriority == <<"create", "fuse", "truncate", "expand", "delete">>

\* the modes whose guard holds for a selection
applicable(as, sel) ==
  {i \in DOMAIN ModePriority :
     checker(ModePriority[i], as, annosForSelection(as, sel), sel)}

C29_GuardBeforeTransaction ==
  executed # NoExecute =>
    /\ executed.mode = "disabled" =>
         /\ executed.outcome = "false"
         /\ executed.transactions = 0
         /\ docAnnos = executed.before
    /\ executed.mode \in CommandModes =>
         IF checker(executed.mode, executed.before,
                    annosForSelection(executed.before, executed.sel), executed.sel)
           THEN executed.outcome = executed.mode
           ELSE /\ executed.outcome = "threw"
                /\ executed.transactions = 0
                /\ docAnnos = executed.before

\* execute is called with the command state of a selection whose guard no
\* longer holds, and the execute method throws
C29_Witness ==
  /\ executed # NoExecute
  /\ executed.method = "execute"
  /\ executed.outcome = "threw"
  /\ \E id \in HelperAnnoIds : executed.before[id] # NoAnno

\* ------------------------------------------- claims about delete and merge
\* delete has been called with a cursor at the boundary of its text that the
\* direction points to, in a selection with a containerPath
deletedAtBoundary ==
  /\ lastVerb.name = "delete"
  /\ lastVerb.sel.offset = lastVerb.sel.endOffset
  /\ \/ lastVerb.direction = "left" /\ lastVerb.sel.offset = 0
     \/ /\ lastVerb.direction = "right"
        /\ lastVerb.sel.offset =
             Len(lastVerb.before.nodes[lastVerb.sel.path].content)

\* the two nodes of the container that a delete at the boundary of the node
\* of the cursor brings together
mergedPair ==
  LET old == lastVerb.before
      pos == getContainerPosition(old, getContainerRoot(old, lastVerb.sel.path))
  IN IF lastVerb.direction = "left"
       THEN <<old.body[pos], old.body[pos + 1]>>
       ELSE <<old.body[pos + 1], old.body[pos + 2]>>

\* the cursor was in a text node of the container that has a neighbour in
\* the direction of the delete
hasNeighbour ==
  LET old == lastVerb.before
      pos == getContainerPosition(old, getContainerRoot(old, lastVerb.sel.path))
  IN IF lastVerb.direction = "left" THEN pos > 0 ELSE pos < Len(old.body) - 1

\* delete has merged two adjacent text nodes, the first of them not empty
mergedTexts ==
  /\ deletedAtBoundary
  /\ lastVerb.sel.containerPath
  /\ isText(lastVerb.before.nodes[lastVerb.sel.path])
  /\ hasNeighbour
  /\ isText(lastVerb.before.nodes[mergedPair[1]])
  /\ isText(lastVerb.before.nodes[mergedPair[2]])
  /\ lastVerb.before.nodes[mergedPair[1]].content # <<>>

\* C21: when two adjacent text nodes are merged and the first, of length n,
\* is not empty, the text of the second is appended to the first, then the
\* annotations of the second are transferred to the first, shifted by n, then
\* the second is deleted; afterwards the first holds the two texts, the
\* second does not exist and is not in the container, and the cursor is at
\* offset n of the first.
C21_MergeAppendsTransfersDeletes ==
  mergedTexts =>
    LET old == lastVerb.before
        first == mergedPair[1]
        second == mergedPair[2]
        n == Len(old.nodes[first].content)
    IN /\ precedes(tx.ops, "update", "transferAnnotations")
       /\ precedes(tx.ops, "transferAnnotations", "deepDeleteNode")
       /\ tx.nodes[first].content =
            old.nodes[first].content \o old.nodes[second].content
       /\ \A a \in marksOn(old, second) :
            tx.annos[a] = [old.annos[a] EXCEPT !.path = first,
                                               !.start = @ + n,
                                               !.end = @ + n]
       /\ \A a \in marksOn(old, first) : tx.annos[a] = old.annos[a]
       /\ second \notin existing(tx)
       /\ second \notin Range(tx.body)
       /\ txSelection = [path |-> first, offset |-> n]

\* two text nodes have been merged and the second had an annotation
C21_Witness ==
  /\ mergedTexts
  /\ marksOn(lastVerb.before, mergedPair[2]) # {}
  /\ lastVerb.before.nodes[mergedPair[2]].content # <<>>

\* the node a selection is anchored to
anchor(sel) == IF isNodeSelection(sel) THEN sel.node ELSE sel.path

\* _merge has been called with a coordinate in a list item
mergedInList ==
  /\ lastVerb.name = "merge"
  /\ isListItem(lastVerb.before.nodes[lastVerb.sel.path])

\* the list of the item has an item next to it in the direction of the merge
hasNeighbourItem ==
  LET old == lastVerb.before
      list == listOf(old, lastVerb.sel.path)
      itemPos == getItemPosition(old, list, lastVerb.sel.path)
  IN IF lastVerb.direction = "left" THEN itemPos > 0
     ELSE itemPos < Len(old.nodes[list].items) - 1

\* the two items a merge within the list brings together
mergedItems ==
  LET old == lastVerb.before
      items == old.nodes[listOf(old, lastVerb.sel.path)].items
      itemPos == indexOf(items, lastVerb.sel.path)
  IN IF lastVerb.direction = "left"
       THEN <<items[itemPos], items[itemPos + 1]>>
       ELSE <<items[itemPos + 1], items[itemPos + 2]>>

\* C22: _merge in a list item merges the item with the item of the same list
\* next to it in the direction whenever there is one (itemPos > 0 for 'left',
\* itemPos < items.length - 1 for 'right'); the merge then changes no other
\* node of the container and puts the cursor at the length the target item
\* had. Only when there is no such item does the merge go across the
\* boundary of the list: it throws, changes or selects the node of the
\* container next to the list, or does nothing when there is none.
C22_ListItemsMergeFirst ==
  mergedInList =>
    LET old == lastVerb.before
        list == listOf(old, lastVerb.sel.path)
    IN IF hasNeighbourItem
         THEN
           LET target == mergedItems[1]
               source == mergedItems[2]
           IN /\ tx.nodes[target].content =
                   old.nodes[target].content \o old.nodes[source].content
              /\ source \notin existing(tx)
              /\ tx.nodes[list].items =
                   SelectSeq(old.nodes[list].items, LAMBDA i : i # source)
              /\ tx.body = old.body
              /\ \A id \in EditNodeIds \ {list, target, source} :
                   tx.nodes[id] = old.nodes[id]
              /\ txSelection =
                   [path |-> target, offset |-> Len(old.nodes[target].content)]
       ELSE IF hasNeighbour
         THEN
           LET other == IF lastVerb.direction = "left"
                          THEN mergedPair[1] ELSE mergedPair[2]
           IN \/ lastVerb.threw
              \/ tx.nodes[other] # old.nodes[other]
              \/ anchor(txSelection) = other
       ELSE /\ tx = old
            /\ txSelection = [path |-> lastVerb.sel.path,
                              offset |-> lastVerb.sel.offset]

\* the second item of a list has been merged into the first by a merge to
\* the left, in a container that holds another node
C22_Witness ==
  /\ mergedInList
  /\ hasNeighbourItem
  /\ lastVerb.direction = "left"
  /\ Len(lastVerb.before.body) > 1
  /\ lastVerb.before.nodes[mergedItems[1]].content # <<>>

\* the cursor of the delete had no merge target: it was at the start of a
\* text node that is the first node of the container, at the end of the last
\* node of the container, or in a selection without a containerPath
noMergeTarget ==
  LET old == lastVerb.before
      node == lastVerb.sel.path
      root == getContainerRoot(old, node)
  IN \/ ~lastVerb.sel.containerPath
     \/ /\ lastVerb.direction = "left"
        /\ isText(old.nodes[node])
        /\ old.body[1] = node
     \/ /\ lastVerb.direction = "right"
        /\ old.body[Len(old.body)] = root
        /\ root # node =>
             old.nodes[root].items[Len(old.nodes[root].items)] = node

\* C25: delete with a collapsed cursor at a text boundary that has no merge
\* target issues no operation, raises no error, and leaves the texts, the
\* container, the annotations and the selection as they were.
C25_DeleteAtBoundaryIsNoOp ==
  (deletedAtBoundary /\ noMergeTarget) =>
    /\ tx.ops = <<>>
    /\ ~lastVerb.threw
    /\ tx = lastVerb.before
    /\ txSelection = [path |-> lastVerb.sel.path, offset |-> lastVerb.sel.offset]

\* delete to the right at the end of the last item of a list that is the
\* last node of a container of two nodes, and delete at the start of a text
\* in a selection without a containerPath although the text has a neighbour
C25_Witness ==
  /\ deletedAtBoundary
  /\ noMergeTarget
  /\ Len(lastVerb.before.body) > 1
  /\ \/ /\ lastVerb.sel.containerPath
        /\ lastVerb.direction = "right"
        /\ isListItem(lastVerb.before.nodes[lastVerb.sel.path])
     \/ /\ ~lastVerb.sel.containerPath
        /\ lastVerb.direction = "left"
        /\ lastVerb.before.body[1] # lastVerb.sel.path

\* delete to the left has been called with the cursor at the start of a list
\* item, in a selection with a containerPath
deletedAtItemStart ==
  /\ deletedAtBoundary
  /\ lastVerb.direction = "left"
  /\ lastVerb.sel.containerPath
  /\ isListItem(lastVerb.before.nodes[lastVerb.sel.path])

\* C30: delete to the left with the cursor at offset 0 of a list item takes
\* the item out of its list only if it is the first item of the list; a later
\* item is merged into the item before it and the list keeps its other items.
C30_ToggleOnlyFirstItem ==
  deletedAtItemStart =>
    LET old == lastVerb.before
        item == lastVerb.sel.path
        list == listOf(old, item)
    IN IF hasNeighbourItem
         THEN /\ item \notin existing(tx)
              /\ tx.body = old.body
              /\ tx.nodes[mergedItems[1]].content =
                   old.nodes[mergedItems[1]].content \o old.nodes[item].content
              /\ txSelection = [path |-> mergedItems[1],
                                offset |-> Len(old.nodes[mergedItems[1]].content)]
         ELSE /\ \A l \in existing(tx) : item \notin Range(tx.nodes[l].items)
              /\ isText(tx.nodes[txSelection.path])
              /\ txSelection.path \in Range(tx.body)
              /\ tx.nodes[txSelection.path].content = old.nodes[item].content

\* ------------------------------------------- claims about the other verbs
StructuralVerbs == {"break", "toggleList", "insertBlockNode", "switchTextType"}

\* a structural verb was called with a combination it does not support: a
\* property selection in a node of the container that is neither a text node
\* nor a list, or toggleList with a container selection
unsupported ==
  /\ lastVerb.name \in {"break", "toggleList", "insertBlockNode"}
  /\ ~isNodeSelection(lastVerb.sel)
  /\ IF spansNodes(lastVerb.sel) THEN lastVerb.name = "toggleList"
     ELSE /\ lastVerb.sel.containerPath
          /\ isBlock(lastVerb.before.nodes[
                       getContainerRoot(lastVerb.before, lastVerb.sel.path)])

\* C23: a structural verb that meets a combination of selection and node
\* type it does not support ends by raising an error; it never returns
\* normally with the request unhandled.
C23_UnsupportedRaises == unsupported => lastVerb.threw

\* C24: a verb that raises an error or rejects its selection or node type
\* has issued no operation on the transaction: the document and the
\* container are as they were before the call.
C24_ValidateBeforeMutation ==
  (lastVerb.name \in StructuralVerbs /\ (lastVerb.threw \/ lastVerb.unhandled)) =>
    /\ tx.ops = <<>>
    /\ tx = lastVerb.before

\* the selection is anchored to a node that exists and that is a node of the
\* container or an item of one of its lists
anchored ==
  LET anchors == IF spansNodes(txSelection)
                   THEN {txSelection.start.path, txSelection.end.path}
                   ELSE {anchor(txSelection)}
  IN \A a \in anchors :
       /\ a \in existing(tx)
       /\ IF isNodeSelection(txSelection) THEN a \in Range(tx.body)
          ELSE a \in addressable(tx)

\* C26: after a verb has completed, the selection of the transaction is
\* anchored to a node that exists and belongs to the container; break with a
\* container selection completes with such a selection for every container
\* selection, also for one that covers the whole container or ends at the
\* end of its last node.
C26_SelectionOnExistingNode ==
  lastVerb.name \in StructuralVerbs \cup {"delete"} =>
    /\ ~lastVerb.threw => anchored
    /\ (lastVerb.name = "break" /\ spansNodes(lastVerb.sel)) =>
         ~lastVerb.threw /\ anchored

\* ------------------------------------------- claims about indent and dedent
\* the item a verb on this selection changes the level of, if it has one
effective(verb) ==
  /\ verb.sel.type = "property"
  /\ verb.sel.node \in ItemIds
  /\ IF verb.name = "indent" THEN verb.before[verb.sel.node] < MaxLevel
     ELSE verb.before[verb.sel.node] > 1

\* C31: the level of every item stays within 1..3 over any sequence of indent
\* and dedent; a verb that is effective changes the level of the item of the
\* selection by exactly 1 and issues one set of [list.id, '_itemsChanged'];
\* indent at level 3, dedent at level 1 and either verb on a node that is not
\* a list issue no operation
C31_LevelsStayWithinThree ==
  /\ \A i \in ItemIds : levels[i] \in 1..MaxLevel
  /\ lastIndent # NoIndent =>
       IF effective(lastIndent)
         THEN LET item == lastIndent.sel.node
                  change == IF lastIndent.name = "indent" THEN 1 ELSE 0 - 1
              IN /\ levels = [lastIndent.before EXCEPT ![item] = @ + change]
                 /\ Cardinality({k \in 1..Len(levelOps) :
                       levelOps[k].path = <<ListId, "_itemsChanged">>}) = 1
                 /\ \A k \in 1..Len(levelOps) :
                      /\ levelOps[k].type = "set"
                      /\ levelOps[k].path \in
                           {<<item, "level">>, <<ListId, "_itemsChanged">>}
         ELSE lastIndent.sel.type = "property" =>
                levels = lastIndent.before /\ levelOps = <<>>

\* an indent has lifted an item from the second level to the third
C31_Witness ==
  /\ lastIndent # NoIndent
  /\ lastIndent.name = "indent"
  /\ lastIndent.sel.type = "property"
  /\ lastIndent.sel.node \in ItemIds
  /\ levels[lastIndent.sel.node] = MaxLevel
  /\ \E i \in ItemIds : lastIndent.before[i] # levels[i]

\* ------------------------------ claims about _transferWithDisambiguatedIds
\* the ids a source node refers to as its owned children
sourceRefs(node) ==
  IF isChildrenProperty(node.type) THEN Range(node.foo)
  ELSE IF isChildProperty(node.type) /\ node.foo # Null THEN {node.foo}
  ELSE {}

\* the node, the nodes it owns and the annotations on their texts
RECURSIVE ownedClosure(_, _)
ownedClosure(doc, ids) ==
  LET more == ids
        \cup UNION {sourceRefs(doc[n]) : n \in ids}
        \cup {a \in Range(SourceAnnoIds) : has(doc, a) /\ doc[a].startPath \in ids}
  IN IF more = ids THEN ids ELSE ownedClosure(doc, more)

\* the positions in the log of creations at which a source id was created
createdAt(id) ==
  {k \in DOMAIN lastTransfer.created : lastTransfer.created[k].from = id}

\* the id a source id was created under
createdAs(id) == lastTransfer.created[CHOOSE k \in createdAt(id) : TRUE].id

\* the reference of an owner with the ids of the transferred nodes replaced
rewrittenRefs(node) ==
  IF isChildrenProperty(node.type)
    THEN [i \in DOMAIN node.foo |-> createdAs(node.foo[i])]
  ELSE IF node.foo = Null THEN Null
  ELSE createdAs(node.foo)

\* C32: a transfer creates every node of the owned subtree of the source
\* node and every annotation on their texts exactly once in the target
\* document, under a fresh id exactly when the target held a node of the
\* source id and under the source id otherwise; it returns the id of the
\* node it was called for; owned references and the paths of the
\* annotations name the ids the nodes were created under; no node the target
\* held is overwritten; owned children are created before their owner and
\* annotations after the node they annotate
C32_TransferDisambiguates ==
  lastTransfer # NoTransfer =>
    LET before == lastTransfer.source
        log == lastTransfer.created
        subtree32 == ownedClosure(before, {lastTransfer.id})
    IN /\ \A n \in SourceIds :
            Cardinality(createdAt(n)) = IF n \in subtree32 THEN 1 ELSE 0
       /\ \A k \in DOMAIN log :
            /\ (log[k].id # log[k].from) <=> has(lastTransfer.target, log[k].from)
            /\ log[k].id # log[k].from =>
                 /\ log[k].id \notin SourceIds
                 /\ ~has(lastTransfer.target, log[k].id)
                 /\ \A j \in DOMAIN log : j # k => log[j].id # log[k].id
            /\ has(targetDoc, log[k].id)
            /\ targetDoc[log[k].id].id = log[k].id
       /\ createdAt(lastTransfer.id) # {}
       /\ lastTransfer.result = createdAs(lastTransfer.id)
       /\ \A n \in subtree32 :
            createdAt(n) # {} =>
              LET made == targetDoc[createdAs(n)]
              IN IF isAnnotation(before[n].type)
                   THEN before[n].startPath \in subtree32 =>
                          /\ made.startPath = createdAs(before[n].startPath)
                          /\ before[n].endPath = before[n].startPath =>
                               made.endPath = made.startPath
                          /\ \A k \in createdAt(n), j \in createdAt(before[n].startPath) :
                               j < k
                 ELSE /\ made.foo = rewrittenRefs(before[n])
                      /\ \A c \in sourceRefs(before[n]) :
                           \A k \in createdAt(n), j \in createdAt(c) : j < k
       /\ \A n \in TransferIds :
            has(lastTransfer.target, n) => targetDoc[n] = lastTransfer.target[n]

\* C38: a transfer leaves every node of the source document, the paths of
\* its annotations included, as it was
C38_SourceIsOnlyRead ==
  lastTransfer # NoTransfer => sourceDoc = lastTransfer.source

\* ------------------------------------------- claims about switchTextType
\* switchTextType has replaced a text node of the container
switched == lastVerb.name = "switchTextType" /\ ~lastVerb.threw

\* C33: switchTextType on a text node at position p of the container puts a
\* newly created node of the requested type with the same text at position
\* p; the container keeps its length and all its other nodes in their order,
\* the old node no longer exists, and the selection has the same start and
\* end offsets on the text of the new node, in the same container
C33_SwitchKeepsPositionAndText ==
  switched =>
    LET before == lastVerb.before
        oldId == lastVerb.sel.path
        p == getContainerPosition(before, oldId)
        newId == tx.body[p + 1]
    IN /\ Len(tx.body) = Len(before.body)
       /\ \A i \in DOMAIN tx.body : i # p + 1 => tx.body[i] = before.body[i]
       /\ newId \notin existing(before)
       /\ newId \in existing(tx)
       /\ tx.nodes[newId].type = lastVerb.type
       /\ tx.nodes[newId].content = before.nodes[oldId].content
       /\ oldId \notin existing(tx)
       /\ \A i \in DOMAIN tx.body :
            i # p + 1 => tx.nodes[tx.body[i]] = before.nodes[tx.body[i]]
       /\ txSelection = [path |-> newId, offset |-> lastVerb.sel.offset,
                         endOffset |-> lastVerb.sel.endOffset,
                         containerPath |-> lastVerb.sel.containerPath]

\* a paragraph that is not the last node of its container has become a
\* heading while a part of its text was selected
C33_Witness ==
  /\ switched
  /\ lastVerb.type = "heading"
  /\ lastVerb.before.nodes[lastVerb.sel.path].type = "paragraph"
  /\ getContainerPosition(lastVerb.before, lastVerb.sel.path) + 1
       < Len(lastVerb.before.body)
  /\ lastVerb.sel.offset < lastVerb.sel.endOffset
  /\ lastVerb.sel.offset > 0

\* ------------------------------------- claims about the annotation loop
\* the branch the annotation took in the loop of the last _insertText
lastCase(id) == annoCase(edit.before[id], edit.startOffset, edit.endOffset)

\* C35: for every annotation range a <= b, every edit range
\* startOffset <= endOffset and every length L >= 0 of the inserted text, the
\* annotation takes one of the branches I to VII of the loop of _insertText;
\* the last branch, which logs 'TODO: handle annotation update case.', is
\* never taken
C35_LoopCasesAreExhaustive ==
  Edited =>
    \A id \in AnnoIds :
      edit.before[id] # NoAnno =>
        lastCase(id) \in {"I", "II", "III", "IV", "V", "VI", "VII"}

\* an annotation that ends in an edit of a longer range has passed the
\* tests of all branches before VII
C35_Witness ==
  /\ Edited
  /\ \E id \in AnnoIds :
       /\ edit.before[id] # NoAnno
       /\ lastCase(id) = "VII"
       /\ edit.before[id].end = edit.endOffset
       /\ edit.startOffset < edit.endOffset

\* C36: every annotation on the edited property lies within the text,
\* 0 <= start <= end <= length of the text, after every _insertText of a
\* sequence of inserts and type-overs that starts with the annotations
\* within the text
C36_AnnotationsStayWithinText ==
  \A id \in AnnoIds :
    annos[id] # NoAnno =>
      /\ 0 <= annos[id].start
      /\ annos[id].start <= annos[id].end
      /\ annos[id].end <= Len(content)

\* ------------------------------------------- claims about emptied containers
\* the selection of the verb covers the whole content of the container: a
\* container selection from the start of the first node to the end of the
\* last node, or a node selection of the only node
coversAll(verb) ==
  LET before == verb.before
      sel == verb.sel
      last == before.body[Len(before.body)]
  IN IF isNodeSelection(sel) THEN Len(before.body) = 1
     ELSE /\ spansNodes(sel)
          /\ Len(before.body) > 1
          /\ sel.start = [path |-> before.body[1], offset |-> 0]
          /\ sel.end = [path |-> last, offset |-> Len(before.nodes[last].content)]

\* the verb removes what its selection covers
removesSelected(verb) ==
  IF isNodeSelection(verb.sel)
    THEN \/ /\ verb.name = "deleteSelection"
            /\ \/ verb.sel.mode = "full"
               \/ verb.sel.mode = "before" /\ verb.direction = "right"
               \/ verb.sel.mode = "after" /\ verb.direction = "left"
         \/ verb.name = "insertText" /\ verb.sel.mode = "full"
    ELSE verb.name \in {"deleteSelection", "insertText", "break"}

\* C34: no verb leaves a container empty that was not empty; when delete,
\* insertText or break removes the whole content of the container, the
\* container holds one new node of the default text type afterwards, empty
\* but for the text insertText has typed, and the selection is a cursor in
\* it, at offset 0 or behind the typed text
C34_ContainerNeverEmpty ==
  lastVerb # NoVerb =>
    /\ Len(lastVerb.before.body) > 0 => Len(tx.body) > 0
    /\ (coversAll(lastVerb) /\ removesSelected(lastVerb)) =>
         LET newId == tx.body[1]
             text == IF lastVerb.name = "insertText"
                       THEN Repeat(TypedChar, lastVerb.L) ELSE <<>>
         IN /\ ~lastVerb.threw
            /\ Len(tx.body) = 1
            /\ newId \notin existing(lastVerb.before)
            /\ tx.nodes[newId] =
                 [type |-> defaultTextType, content |-> text, items |-> <<>>]
            /\ ~isNodeSelection(txSelection)
            /\ txSelection.path = newId
            /\ txSelection.offset = Len(text)

\* ------------------------------------------- claims about break and delete
\* the texts of the nodes of the container, in the order of the container
texts(t) == [i \in 1..Len(t.body) |-> t.nodes[t.body[i]].content]

\* C37: break at a cursor in a text node of the container, followed by
\* delete to the left, leaves the container with the number of nodes and the
\* texts it had, and the cursor at the offset it had, in the node at the
\* position of the broken node, which holds the text again
C37_BreakThenDeleteRestores ==
  (/\ lastVerb # NoVerb
   /\ lastVerb.name = "breakDelete"
   /\ "offset" \in DOMAIN lastVerb.sel
   /\ lastVerb.sel.offset = lastVerb.sel.endOffset
   /\ lastVerb.sel.containerPath
   /\ lastVerb.sel.path \in Range(lastVerb.before.body)
   /\ isText(lastVerb.before.nodes[lastVerb.sel.path])) =>
    LET before == lastVerb.before
        sel == lastVerb.sel
    IN /\ ~lastVerb.threw
       /\ Len(tx.body) = Len(before.body)
       /\ texts(tx) = texts(before)
       /\ ~isNodeSelection(txSelection)
       /\ txSelection.path = tx.body[getContainerPosition(before, sel.path) + 1]
       /\ txSelection.offset = sel.offset

\* the round trip has run at a cursor inside a text, in a container of more
\* than one node
C37_Witness ==
  /\ lastVerb # NoVerb
  /\ lastVerb.name = "breakDelete"
  /\ "offset" \in DOMAIN lastVerb.sel
  /\ lastVerb.sel.offset = lastVerb.sel.endOffset
  /\ lastVerb.sel.containerPath
  /\ lastVerb.sel.path \in Range(lastVerb.before.body)
  /\ isText(lastVerb.before.nodes[lastVerb.sel.path])
  /\ 0 < lastVerb.sel.offset
  /\ lastVerb.sel.offset < Len(lastVerb.before.nodes[lastVerb.sel.path].content)
  /\ Len(lastVerb.before.body) > 1

\* ------------------------------------------- claims about moved annotations
\* the ids of the annotations of the document
marked(t) == {a \in MarkIds : t.annos[a] # Unmarked}

\* the text an annotation covers
coveredText(t, a) ==
  SubSeq(t.nodes[t.annos[a].path].content, t.annos[a].start + 1, t.annos[a].end)

\* the verbs that move the text of a node to another node and remove the node
MovingVerbs == {"switchTextType", "toggleList", "merge", "delete"}

\* C39: when switchTextType, toggleList or a merge moves a text to another
\* node, transferAnnotations runs before every deepDeleteNode of the verb,
\* every annotation of the document is still there afterwards, attached to
\* a node that exists and covering the text it has covered, and the document
\* has as many annotations as before
C39_AnnotationsSurviveTheMove ==
  (/\ lastVerb # NoVerb
   /\ lastVerb.name \in MovingVerbs
   /\ ~lastVerb.threw
   /\ \E j \in DOMAIN tx.ops : tx.ops[j] = "transferAnnotations") =>
    /\ \A i, j \in DOMAIN tx.ops :
         (tx.ops[i] = "deepDeleteNode" /\ tx.ops[j] = "transferAnnotations") => j < i
    /\ \A a \in marked(lastVerb.before) :
         /\ a \in marked(tx)
         /\ tx.nodes[tx.annos[a].path] # Absent
         /\ coveredText(tx, a) = coveredText(lastVerb.before, a)
    /\ Cardinality(marked(tx)) = Cardinality(marked(lastVerb.before))

\* a verb has deleted a node that had an annotation on its text, after the
\* transfer
C39_Witness ==
  /\ lastVerb # NoVerb
  /\ lastVerb.name \in MovingVerbs
  /\ \E j \in DOMAIN tx.ops : tx.ops[j] = "transferAnnotations"
  /\ \E a \in marked(lastVerb.before) :
       /\ tx.nodes[lastVerb.before.annos[a].path] = Absent
       /\ a \in marked(tx)

\* ------------------------------------------- claims about _updateRange
\* the parts of the range of the annotation that differ from the selection
differing(anno, sel) ==
  {p \in {<<"start", "path">>, <<"start", "offset">>,
          <<"end", "path">>, <<"end", "offset">>} :
     anno[p[1]][p[2]] # sel[p[1]][p[2]]}

\* C40: _updateRange with a container or a property selection issues one
\* set operation for each of start path, start offset, end path and end
\* offset that differs between the annotation and the selection, and no
\* other; afterwards start and end of the annotation are those of the
\* selection; with the range of the annotation it issues no operation
C40_UpdateRangeSetsWhatDiffers ==
  (helped.op = "updateRange" /\ ~helped.threw) =>
    LET id == helped.ids[1]
        anno == helped.before[id]
        sel == helped.sel
    IN /\ {helped.sets[i].property : i \in DOMAIN helped.sets} = differing(anno, sel)
       /\ Len(helped.sets) = Cardinality(differing(anno, sel))
       /\ docAnnos[id].start = sel.start
       /\ docAnnos[id].end = sel.end
       /\ (sel.start = anno.start /\ sel.end = anno.end) => helped.sets = <<>>

====
